---- MODULE Spec2Model ----
(***************************************************************************)
(* A model of skippy-core: the cluster context (node inventory, resource  *)
(* accounting, per-node image cache), the resource-fit predicate, the      *)
(* priority functions and the Scheduler pipeline                           *)
(* (sample -> filter -> score -> aggregate -> commit).                     *)
(*                                                                         *)
(* Conventions                                                             *)
(*  - Python lists are sequences; a Python index i (0-based) is position   *)
(*    i + 1 of the sequence.  last_scored_node_index keeps the 0-based     *)
(*    value of the code.                                                   *)
(*  - Python strings that the code inspects character by character (image  *)
(*    names) are sequences of one-character strings.                       *)
(*  - An optional value (None or x) is the set {} or {x}.                  *)
(*  - Memory quantities are counted in MiB (2^20 bytes): every memory      *)
(*    quantity of the model is a whole number of MiB, and the code only    *)
(*    adds, subtracts, compares and takes ratios of them.                  *)
(*  - A dict is a function; a dict whose insertion order the code reads    *)
(*    (ImageState.size) is a sequence of <<key, value>> pairs.             *)
(***************************************************************************)
EXTENDS Integers, Sequences, FiniteSets, TLC

----------------------------------------------------------------------------
(* Bounds of the model *)

\* number of schedule / place_pod_on_node calls in one behaviour
MaxCalls == 3
\* the largest cluster (more than 100 nodes are needed for the sampling
\* target to be smaller than the cluster)
BigN == 250
\* the inputs of num_feasible_nodes_to_find reach MaxProbe * 125 nodes
MaxProbe == 50
\* number of calls remembered for the round-robin claims
MaxHist == 3
\* the number of direct placements before a predicate or a lookup is called
MaxPlacements == 2
\* the longest vector of scores the reductions are applied to
MaxVecLen == 3
\* the longest size string parse_size_string is applied to
MaxSizeLen == 3
\* the longest image name normalize_image_name is applied to
MaxNameLen == 4
\* the number of calls made on the storage index
MaxStorageCalls == 3

----------------------------------------------------------------------------
(* Generic helpers *)

None == {}
Some(x) == {x}
Get(o) == CHOOSE x \in o : TRUE

Range(s) == {s[i] : i \in 1..Len(s)}

RECURSIVE SumSeq(_)
SumSeq(s) == IF s = <<>> THEN 0 ELSE s[1] + SumSeq(Tail(s))

\* Python's min(xs, default=0) / max(xs, default=0)
MinSeq(s) == IF s = <<>> THEN 0 ELSE CHOOSE x \in Range(s) : \A y \in Range(s) : x <= y
MaxSeq(s) == IF s = <<>> THEN 0 ELSE CHOOSE x \in Range(s) : \A y \in Range(s) : x >= y

Abs(x) == IF x < 0 THEN -x ELSE x

\* Python's int(a / b) for integers a, b with b # 0: truncation toward zero
TruncDiv(a, b) ==
    LET q == Abs(a) \div Abs(b)
    IN IF (a < 0) = (b < 0) THEN q ELSE -q

----------------------------------------------------------------------------
(* utils.py *)

default_image_tag == <<"l", "a", "t", "e", "s", "t">>

\* str.rfind(ch): the highest 0-based index of ch in s, or -1
rfind(s, ch) ==
    LET hits == {i \in 1..Len(s) : s[i] = ch}
    IN IF hits = {} THEN -1 ELSE (CHOOSE i \in hits : \A j \in hits : j <= i) - 1

\* a normalization that looks for the first ':' instead of the last
normalize_image_name_FirstColon(image_name) ==
    LET hits == {i \in 1..Len(image_name) : image_name[i] = ":"}
        first == IF hits = {} THEN -1
                 ELSE (CHOOSE i \in hits : \A j \in hits : i <= j) - 1
    IN IF first <= rfind(image_name, "/")
       THEN image_name \o <<":">> \o default_image_tag
       ELSE image_name

normalize_image_name(image_name) ==
    IF rfind(image_name, ":") <= rfind(image_name, "/")
    THEN image_name \o <<":">> \o default_image_tag
    ELSE image_name

(* Python integers are unbounded: a non-negative int is the sequence of its
   decimal digits, least significant first and without leading zeros, so
   that 0 is <<>> and 1024 is <<4, 2, 0, 1>>. *)
RECURSIVE IntDigits(_)
IntDigits(k) == IF k = 0 THEN <<>> ELSE <<k % 10>> \o IntDigits(k \div 10)

\* n * m + carry for an int n and machine-sized m >= 1 and carry
RECURSIVE TimesSmall(_, _, _)
TimesSmall(n, m, carry) ==
    IF n = <<>> THEN IntDigits(carry)
    ELSE <<(Head(n) * m + carry) % 10>> \o
         TimesSmall(Tail(n), m, (Head(n) * m + carry) \div 10)

\* a + b + carry
RECURSIVE Plus(_, _, _)
Plus(a, b, carry) ==
    IF a = <<>> THEN (IF carry = 0 THEN b ELSE Plus(IntDigits(carry), b, 0))
    ELSE IF b = <<>> THEN (IF carry = 0 THEN a ELSE Plus(a, IntDigits(carry), 0))
    ELSE <<(Head(a) + Head(b) + carry) % 10>> \o
         Plus(Tail(a), Tail(b), (Head(a) + Head(b) + carry) \div 10)

\* 10 * n
TimesTen(n) == IF n = <<>> THEN <<>> ELSE <<0>> \o n

\* a * b, digit by digit of a
RECURSIVE Times(_, _)
Times(a, b) ==
    IF a = <<>> \/ b = <<>> THEN <<>>
    ELSE Plus(IF Head(a) = 0 THEN <<>> ELSE TimesSmall(b, Head(a), 0),
              TimesTen(Times(Tail(a), b)), 0)

\* base ** exponent, by squaring
RECURSIVE Power(_, _)
Power(base, exponent) ==
    IF exponent = 0 THEN <<1>>
    ELSE IF exponent % 2 = 1 THEN TimesSmall(Power(base, exponent - 1), base, 0)
    ELSE Times(Power(base, exponent \div 2), Power(base, exponent \div 2))

size_conversions ==
    [unit \in {<<"K">>, <<"M">>, <<"G">>, <<"T">>, <<"P">>, <<"E">>,
               <<"K", "i">>, <<"M", "i">>, <<"G", "i">>, <<"T", "i">>,
               <<"P", "i">>, <<"E", "i">>} |->
        CASE unit = <<"K">> -> Power(10, 3)
          [] unit = <<"M">> -> Power(10, 6)
          [] unit = <<"G">> -> Power(10, 9)
          [] unit = <<"T">> -> Power(10, 12)
          [] unit = <<"P">> -> Power(10, 15)
          [] unit = <<"E">> -> Power(10, 18)
          [] unit = <<"K", "i">> -> Power(2, 10)
          [] unit = <<"M", "i">> -> Power(2, 20)
          [] unit = <<"G", "i">> -> Power(2, 30)
          [] unit = <<"T", "i">> -> Power(2, 40)
          [] unit = <<"P", "i">> -> Power(2, 50)
          [] unit = <<"E", "i">> -> Power(2, 60)]

\* the character classes [0-9] and [a-zA-Z]
DigitChars == <<"0", "1", "2", "3", "4", "5", "6", "7", "8", "9">>

LetterChars ==
    {"a", "b", "c", "d", "e", "f", "g", "h", "i", "j", "k", "l", "m",
     "n", "o", "p", "q", "r", "s", "t", "u", "v", "w", "x", "y", "z",
     "A", "B", "C", "D", "E", "F", "G", "H", "I", "J", "K", "L", "M",
     "N", "O", "P", "Q", "R", "S", "T", "U", "V", "W", "X", "Y", "Z"}

\* the length of the longest run of characters of class that starts at from
RunLength(s, from, class) ==
    Cardinality({k \in from..Len(s) : \A i \in from..k : s[i] \in class})

\* __size_pattern.match: both groups are greedy and the pattern is anchored at
\* the start of the string only; None when no digit leads
size_pattern_match(size_string) ==
    IF RunLength(size_string, 1, Range(DigitChars)) = 0 THEN None
    ELSE Some([number |-> SubSeq(size_string, 1,
                                 RunLength(size_string, 1, Range(DigitChars))),
               unit |-> SubSeq(size_string,
                               RunLength(size_string, 1, Range(DigitChars)) + 1,
                               RunLength(size_string, 1, Range(DigitChars)) +
                               RunLength(size_string,
                                         RunLength(size_string, 1, Range(DigitChars)) + 1,
                                         LetterChars))])

\* int(number) for a string of decimal digits
RECURSIVE int_str(_)
int_str(number) ==
    IF number = <<>> THEN <<>>
    ELSE Plus(IntDigits((CHOOSE v \in 1..10 : DigitChars[v] = number[Len(number)]) - 1),
              TimesTen(int_str(SubSeq(number, 1, Len(number) - 1))), 0)

\* dict.get(unit, 1)
size_conversions_get(unit) ==
    IF unit \in DOMAIN size_conversions THEN size_conversions[unit] ELSE <<1>>

\* a parser that reads the unit from the first letter of the suffix
parse_size_string_FirstLetter(size_string) ==
    IF size_pattern_match(size_string) = None
    THEN [raised |-> TRUE, value |-> <<>>]
    ELSE [raised |-> FALSE,
          value |-> Times(int_str(Get(size_pattern_match(size_string)).number),
                          size_conversions_get(
                              SubSeq(Get(size_pattern_match(size_string)).unit, 1,
                                     IF Get(size_pattern_match(size_string)).unit = <<>>
                                     THEN 0 ELSE 1)))]

\* the pattern has two groups, so len(m.groups()) > 1 always holds
parse_size_string(size_string) ==
    IF size_pattern_match(size_string) = None
    THEN [raised |-> TRUE, value |-> <<>>]
    ELSE [raised |-> FALSE,
          value |-> Times(int_str(Get(size_pattern_match(size_string)).number),
                          size_conversions_get(
                              Get(size_pattern_match(size_string)).unit))]

----------------------------------------------------------------------------
(* model.py *)

default_milli_cpu_request == 100
\* 200 * 1024 * 1024 bytes, in MiB
default_mem_request == 200

default_requests == [k \in {"cpu", "memory"} |->
                        IF k = "cpu" THEN default_milli_cpu_request ELSE default_mem_request]

\* dict.get(key, default)
DictGet(d, key, default) == IF key \in DOMAIN d THEN d[key] ELSE default

EmptyDict == [k \in {} |-> 0]

\* ResourceRequirements(requests): an omitted or empty dict is falsy and is
\* replaced by a copy of default_requests
ResourceRequirements(requests) ==
    [requests |-> IF requests = None \/ Get(requests) = EmptyDict
                  THEN default_requests ELSE Get(requests)]

\* Container(image, resources)
Container(image, resources) ==
    [image |-> image,
     resources |-> IF resources = None THEN ResourceRequirements(None) ELSE Get(resources)]

\* Capacity(cpu_millis, memory); the defaults are 1000 millicores and 1 GiB
Capacity(cpu_millis, memory) == [cpu_millis |-> cpu_millis, memory |-> memory]
DefaultCapacity == Capacity(1 * 1000, 1024)

\* Node(name, capacity, allocatable, labels): omitted arguments are None
Node(name, capacity, allocatable, labels) ==
    [name |-> name,
     capacity |-> IF capacity = None THEN DefaultCapacity ELSE Get(capacity),
     allocatable |-> IF allocatable = None THEN DefaultCapacity ELSE Get(allocatable),
     labels |-> IF labels = None THEN EmptyDict ELSE Get(labels),
     pods |-> <<>>]

SchedulingResult(suggested_host, feasible_nodes, needed_images) ==
    [suggested_host |-> suggested_host,
     feasible_nodes |-> feasible_nodes,
     needed_images |-> needed_images]

----------------------------------------------------------------------------
(* The state *)

VARIABLES
    nodes,                        \* ClusterContext.list_nodes(): sequence of Node
    image_states,                 \* ClusterContext.image_states: normalized name -> ImageState
    images_on_nodes,              \* ClusterContext.images_on_nodes: node name -> (key -> image state handle)
    last_scored_node_index,       \* Scheduler.last_scored_node_index
    percentage_of_nodes_to_score, \* Scheduler.percentage_of_nodes_to_score
    predicates,                   \* Scheduler.predicates
    priorities,                   \* Scheduler.priorities: sequence of <<weight, priority>>
    call,                         \* what the last call was given, saw and returned
    storage_index,                \* the context's StorageIndex: buckets, items, tree
    hist,                         \* the feasible lists of the last MaxHist schedule calls
    probe,                        \* the last application of a pure function: its arguments and value
    ncalls,                       \* number of calls made so far
    scheduler_b,                  \* a second Scheduler over the same context: its fields
    puts,                         \* what the calls of StorageIndex.put were given, by key: the
                                  \* item of the latest call and the nodes that hosted the
                                  \* bucket when a call was made
    context_b                     \* a second ClusterContext: the attributes __init__ gives the
                                  \* instance (its nodes, its image_states); images_on_nodes
                                  \* is the attribute of the class, the one both instances read

vars == <<nodes, image_states, images_on_nodes, last_scored_node_index,
          percentage_of_nodes_to_score, predicates, priorities, storage_index,
          call, hist, probe, ncalls, scheduler_b, context_b, puts>>

----------------------------------------------------------------------------
(* clustercontext.py *)

max_priority == 10

NodeName(i) == "n" \o ToString(i)

\* ImageState(size, num_nodes)
ImageState(size, num_nodes) == [size |-> size, num_nodes |-> num_nodes]

\* the keys of an ordered dict, and its lookup
Keys(d) == [i \in 1..Len(d) |-> d[i][1]]
HasKey(d, k) == \E i \in 1..Len(d) : d[i][1] = k
Lookup(d, k) == d[CHOOSE i \in 1..Len(d) : d[i][1] = k][2]

\* the cluster context as one value: the part of the state that
\* place_pod_on_node and get_image_state read and write
Context == [nodes |-> nodes, image_states |-> image_states,
            images_on_nodes |-> images_on_nodes, storage_index |-> storage_index]

\* get_image_state(image_name): the lookup self.image_states[image_name]
\* raises KeyError for a name that is not a key; otherwise the stored state
\* is returned (a handle to it: its normalized name)
get_image_state_raises(ctx, image_name) == image_name \notin DOMAIN ctx.image_states

\* retrieve_image_state(image_name): raise NotImplemented("Remote requested
\* size information ...") always ends in an exception
retrieve_image_state(image_name) == [raised |-> TRUE, by |-> "retrieve_image_state"]

\* get_image_state(image_name) as a call: whether it raised and where, the
\* state it returned (its normalized name) and image_states afterwards.
\* The test self.image_states[image_name] is None subscripts the dict, which
\* raises for a name that is not a key; the stored states of the model's
\* contexts are never None, so a stored state is returned as it is.
get_image_state(ctx, image_name) ==
    IF image_name \notin DOMAIN ctx.image_states
    THEN [raised |-> TRUE, by |-> "image_states[image_name]", state |-> None,
          image_states |-> ctx.image_states]
    ELSE [raised |-> FALSE, by |-> "", state |-> Some(image_name),
          image_states |-> ctx.image_states]

\* an iteration that records the image in the cache of every node
PlaceContainer_EveryCache(ctx, c, n) ==
    LET image_name == normalize_image_name(c.image)
        cpu == DictGet(c.resources.requests, "cpu", default_milli_cpu_request)
        mem == DictGet(c.resources.requests, "mem", default_mem_request)
    IN IF get_image_state_raises(ctx, image_name)
       THEN [ctx EXCEPT !.raised = TRUE]
       ELSE [ctx EXCEPT
               !.image_states[image_name].num_nodes = @ + 1,
               !.images_on_nodes =
                   [name \in DOMAIN @ |->
                       [k \in DOMAIN @[name] \cup {c.image} |->
                           IF k = c.image THEN image_name ELSE @[name][k]]],
               !.nodes[n].allocatable.cpu_millis = @ - cpu,
               !.nodes[n].allocatable.memory = @ - mem]

\* one iteration of the loop of place_pod_on_node for container c on the
\* node at position n; ctx.raised is set when get_image_state raised
PlaceContainer(ctx, c, n) ==
    LET image_name == normalize_image_name(c.image)
        node == ctx.nodes[n]
        cpu == DictGet(c.resources.requests, "cpu", default_milli_cpu_request)
        mem == DictGet(c.resources.requests, "mem", default_mem_request)
    IN IF get_image_state_raises(ctx, image_name)
       THEN [ctx EXCEPT !.raised = TRUE]
       ELSE [ctx EXCEPT
               !.image_states[image_name].num_nodes = @ + 1,
               !.images_on_nodes[node.name] =
                   [k \in DOMAIN @ \cup {c.image} |-> IF k = c.image THEN image_name ELSE @[k]],
               !.nodes[n].allocatable.cpu_millis = @ - cpu,
               !.nodes[n].allocatable.memory = @ - mem]

RECURSIVE PlaceContainers(_, _, _)
PlaceContainers(ctx, containers, n) ==
    IF containers = <<>> \/ ctx.raised THEN ctx
    ELSE PlaceContainers(PlaceContainer(ctx, Head(containers), n), Tail(containers), n)

\* node.pods.append(pod), unless the loop raised
AppendPod(ctx, pod, n) ==
    IF ctx.raised THEN ctx ELSE [ctx EXCEPT !.nodes[n].pods = Append(@, pod.name)]

\* place_pod_on_node(pod, node): the context afterwards, with raised = TRUE
\* when the call ended in an exception (what the loop did before is kept)
place_pod_on_node(ctx, pod, n) ==
    AppendPod(PlaceContainers([nodes |-> ctx.nodes, image_states |-> ctx.image_states,
                               images_on_nodes |-> ctx.images_on_nodes,
                               storage_index |-> ctx.storage_index, raised |-> FALSE],
                              pod.spec.containers, n),
              pod, n)

----------------------------------------------------------------------------
(* predicates.py *)

RECURSIVE RequestedSum(_, _, _)
RequestedSum(containers, key, default) ==
    IF containers = <<>> THEN 0
    ELSE DictGet(Head(containers).resources.requests, key, default)
         + RequestedSum(Tail(containers), key, default)

\* a fit that compares the cpu request only
PodFitsResourcesPred_CpuOnly(ctx, pod, node) ==
    RequestedSum(pod.spec.containers, "cpu", default_milli_cpu_request)
        <= node.allocatable.cpu_millis

\* PodFitsResourcesPred.passes_predicate
PodFitsResourcesPred(ctx, pod, node) ==
    LET allocatable == node.allocatable
        requested == Capacity(
            RequestedSum(pod.spec.containers, "cpu", default_milli_cpu_request),
            RequestedSum(pod.spec.containers, "memory", default_mem_request))
    IN requested.memory <= allocatable.memory /\ requested.cpu_millis <= allocatable.cpu_millis

\* Predicate.passes_predicate of the predicate named p; the combined
\* predicates are conjunctions of their parts
RECURSIVE passes_predicate(_, _, _, _)
passes_predicate(p, ctx, pod, node) ==
    CASE p = "PodFitsResourcesPred" -> PodFitsResourcesPred(ctx, pod, node)
      [] p = "NonCriticalPreds" -> passes_predicate("PodFitsResourcesPred", ctx, pod, node)
      [] p = "EssentialPreds" -> passes_predicate("PodFitsResourcesPred", ctx, pod, node)
      [] p = "GeneralPreds" -> /\ passes_predicate("EssentialPreds", ctx, pod, node)
                               /\ passes_predicate("NonCriticalPreds", ctx, pod, node)

----------------------------------------------------------------------------
(* priorities.py *)

\* a scaling that rounds the quotient to the nearest integer
_scale_scores_Rounded(scores, t_max) ==
    LET r_min == MinSeq(scores)
        r_max == MaxSeq(scores)
        div == r_max - r_min
    IN IF div = 0 THEN [i \in 1..Len(scores) |-> 0]
       ELSE [i \in 1..Len(scores) |->
               TruncDiv(2 * (scores[i] - r_min) * t_max + div, 2 * div)]

\* _scale_scores(scores, t_max): int(((x - r_min) / div) * t_max)
_scale_scores(scores, t_max) ==
    LET r_min == MinSeq(scores)
        r_max == MaxSeq(scores)
        div == r_max - r_min
    IN IF div = 0 THEN [i \in 1..Len(scores) |-> 0]
       ELSE [i \in 1..Len(scores) |-> TruncDiv((scores[i] - r_min) * t_max, div)]

\* _scale_scores_inverse(scores, t_max): int(((x - r_max) / div) * t_max)
_scale_scores_inverse(scores, t_max) ==
    LET r_min == MinSeq(scores)
        r_max == MaxSeq(scores)
        div == r_min - r_max
    IN IF div = 0 THEN [i \in 1..Len(scores) |-> 0]
       ELSE [i \in 1..Len(scores) |-> TruncDiv((scores[i] - r_max) * t_max, div)]

\* the outcome of a call that returns an integer or raises
Returns(x) == [raised |-> FALSE, value |-> x]
Raises == [raised |-> TRUE, value |-> 0]

\* EqualPriority.map_node_score
EqualPriority_map(ctx, pod, node) == Returns(1)

\* BalancedResourcePriority.fraction_of_capacity as the fraction <<num, den>>
fraction_of_capacity(requested, capacity) ==
    <<requested, IF capacity = 0 THEN 1 ELSE capacity>>

\* f >= 1 for a fraction f = <<num, den>>, den # 0
FractionGe1(f) == IF f[2] > 0 THEN f[1] >= f[2] ELSE f[1] <= f[2]

\* BalancedResourcePriority.scorer:
\* int((1 - fabs(cpu_fraction - memory_fraction)) * float(max_priority))
BalancedResourcePriority_scorer(ctx, requested, allocatable) ==
    LET cpu_fraction == fraction_of_capacity(requested.cpu_millis, allocatable.cpu_millis)
        memory_fraction == fraction_of_capacity(requested.memory, allocatable.memory)
        den == Abs(cpu_fraction[2] * memory_fraction[2])
        diff == Abs(cpu_fraction[1] * memory_fraction[2] - memory_fraction[1] * cpu_fraction[2])
    IN IF FractionGe1(cpu_fraction) \/ FractionGe1(memory_fraction) THEN 0
       ELSE TruncDiv((den - diff) * max_priority, den)

\* ResourcePriority.map_node_score with the scorer of BalancedResourcePriority
BalancedResourcePriority_map(ctx, pod, node) ==
    LET requested == Capacity(
            RequestedSum(pod.spec.containers, "cpu", default_milli_cpu_request),
            RequestedSum(pod.spec.containers, "memory", default_mem_request))
    IN Returns(BalancedResourcePriority_scorer(ctx, requested, node.allocatable))

\* LocalityTypePriority.map_node_score
LocalityTypePriority_map(ctx, pod, node) ==
    LET type == DictGet(node.labels, "locality.skippy.io/type", "")
    IN Returns(IF type = "edge" THEN max_priority ELSE 0)

\* the label keys of the model that contain the substring 'capability.skippy.io'
IsCapabilityKey(k) == k \in {"capability.skippy.io/nvidia-cuda", "capability.skippy.io/type"}

\* CapabilityPriority.map_node_score
CapabilityPriority_map(ctx, pod, node) ==
    LET pod_caps == {k \in DOMAIN node.labels : IsCapabilityKey(k)}
    IN Returns(Cardinality({k \in pod_caps :
                   k \in DOMAIN pod.spec.labels /\ node.labels[k] = pod.spec.labels[k]}))

\* ClusterContext.get_dl_bandwidth(from_node, to_node): the edge of the
\* bandwidth graph, None when bandwidth[from_node][to_node] raises KeyError.
\* The graph is built by the embedder: the registry reaches node i with
\* 10 or 20 bytes per second, nodes reach each other with 5 or 10.
get_dl_bandwidth(ctx, from_node, to_node) ==
    LET names == {ctx.nodes[i].name : i \in 1..Len(ctx.nodes)}
        pos(name) == CHOOSE i \in 1..Len(ctx.nodes) : ctx.nodes[i].name = name
    IN IF to_node \notin names \/ from_node = to_node THEN None
       ELSE IF from_node = "registry" THEN Some(IF pos(to_node) % 2 = 1 THEN 10 ELSE 20)
       ELSE IF from_node \in names THEN Some(IF pos(from_node) < pos(to_node) THEN 5 ELSE 10)
       ELSE None

\* LatencyAwareImageLocalityPriority.get_size: the loop over the containers,
\* carrying size and node_arch (which a fallback overwrites for the rest of
\* the loop)
RECURSIVE get_size_loop(_, _, _, _, _)
get_size_loop(ctx, containers, node, size, node_arch) ==
    IF containers = <<>> THEN Returns(size)
    ELSE LET image_name == normalize_image_name(Head(containers).image)
         IN IF image_name \in DOMAIN ctx.images_on_nodes[node.name]
            THEN get_size_loop(ctx, Tail(containers), node, size, node_arch)
            ELSE IF get_image_state_raises(ctx, image_name) THEN Raises
            ELSE LET sizes == ctx.image_states[image_name].size
                 IN IF ~HasKey(sizes, node_arch) /\ sizes = <<>> THEN Raises
                    ELSE LET arch == IF HasKey(sizes, node_arch) THEN node_arch
                                     ELSE Keys(sizes)[1]
                         IN get_size_loop(ctx, Tail(containers), node,
                                          size + Lookup(sizes, arch), arch)

get_size(ctx, pod, node) ==
    IF "beta.kubernetes.io/arch" \notin DOMAIN node.labels THEN Raises
    ELSE get_size_loop(ctx, pod.spec.containers, node, 0,
                       node.labels["beta.kubernetes.io/arch"])

\* LocalityPriority.map_node_score with get_size and get_target_node of
\* LatencyAwareImageLocalityPriority
LatencyAwareImageLocalityPriority_map(ctx, pod, node) ==
    LET size == get_size(ctx, pod, node)
        target_node == "registry"
        bandwidth == get_dl_bandwidth(ctx, target_node, node.name)
    IN IF size.raised \/ bandwidth = None THEN Raises
       ELSE Returns(TruncDiv(size.value, Get(bandwidth)))

\* a reduction that does not add the minimum back
LocalityPriority_reduce_NoMin(node_scores) ==
    LET max_count_by_node_name == MaxSeq(node_scores)
    IN IF max_count_by_node_name = 0 THEN [i \in 1..Len(node_scores) |-> 0]
       ELSE [i \in 1..Len(node_scores) |->
               TruncDiv(max_priority * (max_count_by_node_name - node_scores[i]),
                        max_count_by_node_name)]

\* LocalityPriority.reduce_mapped_score
LocalityPriority_reduce(node_scores) ==
    LET min_count_by_node_name == MinSeq(node_scores)
        max_count_by_node_name == MaxSeq(node_scores)
    IN IF max_count_by_node_name = 0 THEN [i \in 1..Len(node_scores) |-> 0]
       ELSE [i \in 1..Len(node_scores) |->
               TruncDiv(max_priority * (max_count_by_node_name - node_scores[i]
                                        + min_count_by_node_name),
                        max_count_by_node_name)]

\* StorageIndex.stat(bucket, name): items.get(k)
stat(index, bucket, name) ==
    LET k == <<bucket, name>>
    IN IF k \in DOMAIN index.items THEN Some(index.items[k]) ELSE None

\* StorageIndex.get_data_nodes(bucket, name): tree.get(k)
get_data_nodes(index, bucket, name) ==
    LET k == <<bucket, name>>
    IN IF k \in DOMAIN index.tree THEN Some(index.tree[k]) ELSE None

\* StorageIndex.get_bucket_nodes(bucket): self.buckets[bucket] on the
\* defaultdict(set) buckets.  Subscripting a defaultdict with a missing key
\* stores the default under the key: the set returned and the index afterwards
get_bucket_nodes(index, bucket) ==
    IF bucket \in DOMAIN index.buckets
    THEN [nodes |-> index.buckets[bucket], index |-> index]
    ELSE [nodes |-> {},
          index |-> [index EXCEPT !.buckets =
                        [b \in DOMAIN @ \cup {bucket} |-> IF b = bucket THEN {} ELSE @[b]]]]

\* StorageIndex.mb(name, node): self.buckets[name].add(node)
mb(index, name, node) ==
    [index EXCEPT !.buckets =
        [b \in DOMAIN @ \cup {name} |->
            IF b = name THEN get_bucket_nodes(index, name).nodes \cup {node} ELSE @[b]]]

\* a put that leaves the item of a key that is stored already
put_found_KeepsFirst(data, found) ==
    IF found.nodes = {}
    THEN [raised |-> TRUE, index |-> found.index]
    ELSE [raised |-> FALSE,
          index |-> [found.index EXCEPT
              !.items = [k \in DOMAIN @ \cup {<<data.bucket, data.name>>} |->
                            IF k \in DOMAIN @ THEN @[k] ELSE data],
              !.tree = [k \in DOMAIN @ \cup {<<data.bucket, data.name>>} |->
                            IF k = <<data.bucket, data.name>>
                            THEN (IF k \in DOMAIN @ THEN @[k] ELSE {}) \cup found.nodes
                            ELSE @[k]]]]

\* the rest of StorageIndex.put(data) once get_bucket_nodes has returned
\* found: raise KeyError when no node hosts the bucket, else record the item
\* and add the bucket's nodes to the item's entry of the defaultdict tree
put_found(data, found) ==
    IF found.nodes = {}
    THEN [raised |-> TRUE, index |-> found.index]
    ELSE [raised |-> FALSE,
          index |-> [found.index EXCEPT
              !.items = [k \in DOMAIN @ \cup {<<data.bucket, data.name>>} |->
                            IF k = <<data.bucket, data.name>> THEN data ELSE @[k]],
              !.tree = [k \in DOMAIN @ \cup {<<data.bucket, data.name>>} |->
                            IF k = <<data.bucket, data.name>>
                            THEN (IF k \in DOMAIN @ THEN @[k] ELSE {}) \cup found.nodes
                            ELSE @[k]]]]

\* StorageIndex.put(data)
put(index, data) == put_found(data, get_bucket_nodes(index, data.bucket))

\* ClusterContext.get_storage_nodes(path): the nodes that hold the item
get_storage_nodes(ctx, path) ==
    LET found == get_data_nodes(ctx.storage_index, path[1], path[2])
    IN IF found = None THEN {} ELSE Get(found)

\* a choice of the storage node with the greatest bandwidth
calculate_time_MaxBandwidth(ctx, pod, node, label, receive) ==
    IF label \notin DOMAIN pod.spec.labels THEN Returns(0)
    ELSE LET path == pod.spec.labels[label]
             data_item == stat(ctx.storage_index, path[1], path[2])
             storage_nodes == get_storage_nodes(ctx, path)
             bw(storage) == IF receive THEN get_dl_bandwidth(ctx, storage, node.name)
                            ELSE get_dl_bandwidth(ctx, node.name, storage)
         IN IF data_item = None THEN Returns(0)
            ELSE IF node.name \in storage_nodes THEN Returns(0)
            ELSE IF \E st \in storage_nodes : bw(st) = None THEN Raises
            ELSE IF storage_nodes = {} THEN Returns(0)
            ELSE LET max_bw == CHOOSE b \in {Get(bw(st)) : st \in storage_nodes} :
                                   \A st \in storage_nodes : b >= Get(bw(st))
                 IN Returns(TruncDiv(Get(data_item).size, max_bw))

\* the body shared by calculate_recv_time (receive = TRUE: bandwidth from the
\* storage node to the candidate) and calculate_send_time (receive = FALSE).
\* A path 'bucket/name' is the pair <<bucket, name>>.  The loop returns 0 as
\* soon as it meets the candidate itself and raises when an edge is missing;
\* the model's graphs have every edge between two cluster nodes.
calculate_time(ctx, pod, node, label, receive) ==
    IF label \notin DOMAIN pod.spec.labels THEN Returns(0)
    ELSE LET path == pod.spec.labels[label]
             data_item == stat(ctx.storage_index, path[1], path[2])
             storage_nodes == get_storage_nodes(ctx, path)
             bw(storage) == IF receive THEN get_dl_bandwidth(ctx, storage, node.name)
                            ELSE get_dl_bandwidth(ctx, node.name, storage)
         IN IF data_item = None THEN Returns(0)
            ELSE IF node.name \in storage_nodes THEN Returns(0)
            ELSE IF \E st \in storage_nodes : bw(st) = None THEN Raises
            ELSE IF storage_nodes = {} THEN Returns(0)
            ELSE LET min_bw == CHOOSE b \in {Get(bw(st)) : st \in storage_nodes} :
                                   \A st \in storage_nodes : b <= Get(bw(st))
                 IN Returns(TruncDiv(Get(data_item).size, min_bw))

calculate_recv_time(ctx, pod, node) ==
    calculate_time(ctx, pod, node, "data.skippy.io/receives-from-storage/path", TRUE)

calculate_send_time(ctx, pod, node) ==
    calculate_time(ctx, pod, node, "data.skippy.io/sends-to-storage/path", FALSE)

\* DataLocalityPriority.map_node_score
DataLocalityPriority_map(ctx, pod, node) ==
    LET recv == calculate_recv_time(ctx, pod, node)
        send == calculate_send_time(ctx, pod, node)
    IN IF recv.raised \/ send.raised THEN Raises
       ELSE Returns(recv.value + send.value)

\* Priority.map_node_score of the priority named p
map_node_score(p, ctx, pod, node) ==
    CASE p = "EqualPriority" -> EqualPriority_map(ctx, pod, node)
      [] p = "BalancedResourcePriority" -> BalancedResourcePriority_map(ctx, pod, node)
      [] p = "LatencyAwareImageLocalityPriority" ->
             LatencyAwareImageLocalityPriority_map(ctx, pod, node)
      [] p = "LocalityTypePriority" -> LocalityTypePriority_map(ctx, pod, node)
      [] p = "DataLocalityPriority" -> DataLocalityPriority_map(ctx, pod, node)
      [] p = "CapabilityPriority" -> CapabilityPriority_map(ctx, pod, node)

\* Priority.reduce_mapped_score of the priority named p (the default
\* implementation returns the scores as they are)
reduce_mapped_score(p, ctx, pod, feasible, node_scores) ==
    CASE p = "LatencyAwareImageLocalityPriority" -> LocalityPriority_reduce(node_scores)
      [] p = "DataLocalityPriority" -> _scale_scores_inverse(node_scores, max_priority)
      [] p = "CapabilityPriority" -> _scale_scores(node_scores, max_priority)
      [] OTHER -> node_scores

----------------------------------------------------------------------------
(* scheduler.py *)

min_feasible_nodes_to_find == 100
min_feasible_nodes_percentage_to_find == 5
default_percentage_of_nodes_to_score == 50

default_predicates == <<"PodFitsResourcesPred">>

default_priorities == << <<1, "BalancedResourcePriority">>,
                         <<1, "LatencyAwareImageLocalityPriority">>,
                         <<1, "LocalityTypePriority">>,
                         <<1, "DataLocalityPriority">>,
                         <<1, "CapabilityPriority">> >>

\* a target whose adaptive percentage is not floored
num_feasible_nodes_to_find_NoFloor(num_all_nodes, percentage) ==
    IF num_all_nodes < min_feasible_nodes_percentage_to_find \/ percentage >= 100
    THEN num_all_nodes
    ELSE LET adaptive_percentage ==
                 IF percentage <= 0
                 THEN <<default_percentage_of_nodes_to_score * 125 - num_all_nodes, 125>>
                 ELSE <<percentage, 1>>
             num_nodes == TruncDiv(num_all_nodes * adaptive_percentage[1],
                                   adaptive_percentage[2] * 100)
         IN IF num_nodes < min_feasible_nodes_to_find
            THEN min_feasible_nodes_to_find
            ELSE num_nodes

\* Scheduler.__num_feasible_nodes_to_find.  adaptive_percentage is the
\* fraction <<num, den>>: 50 - num_all_nodes / 125 is (6250 - num_all_nodes) / 125.
\* (The float result of the code is the exact one: num_all_nodes * adaptive / 100
\* is a whole number only when 125 divides num_all_nodes, where the floats are exact.)
num_feasible_nodes_to_find(num_all_nodes, percentage) ==
    IF num_all_nodes < min_feasible_nodes_percentage_to_find \/ percentage >= 100
    THEN num_all_nodes
    ELSE LET adaptive_percentage ==
                 IF percentage <= 0
                 THEN IF default_percentage_of_nodes_to_score * 125 - num_all_nodes
                            < min_feasible_nodes_percentage_to_find * 125
                      THEN <<min_feasible_nodes_percentage_to_find, 1>>
                      ELSE <<default_percentage_of_nodes_to_score * 125 - num_all_nodes, 125>>
                 ELSE <<percentage, 1>>
             num_nodes == TruncDiv(num_all_nodes * adaptive_percentage[1],
                                   adaptive_percentage[2] * 100)
         IN IF num_nodes < min_feasible_nodes_to_find
            THEN min_feasible_nodes_to_find
            ELSE num_nodes

\* Scheduler.passes_predicates: the conjunction over the configured predicates
passes_predicates(preds, ctx, pod, node) ==
    \A i \in 1..Len(preds) : passes_predicate(preds[i], ctx, pod, node)

\* islice(cycle(nodes), index, index + len(nodes)): the positions of the
\* nodes in the order the call inspects them
InspectionOrder(n, index) == [k \in 1..n |-> ((index + k - 1) % n) + 1]

\* filter(passes_predicates, ...) cut by islice(filtered, num_of_nodes_to_find):
\* the positions of the first num_of_nodes_to_find passing nodes, in order
\* (the predicates have no effect, so it does not show that the code stops
\* evaluating them once the target is reached)
FirstN(s, k) == SubSeq(s, 1, IF k < Len(s) THEN k ELSE Len(s))

\* a sampling that does not ask the predicates
TakeFeasible_Unfiltered(preds, ctx, pod, order, num_of_nodes_to_find) ==
    FirstN(order, num_of_nodes_to_find)

TakeFeasible(preds, ctx, pod, order, num_of_nodes_to_find) ==
    FirstN(SelectSeq(order, LAMBDA p : passes_predicates(preds, ctx, pod, ctx.nodes[p])),
           num_of_nodes_to_find)

\* a filter that is run over the whole lap before the list is cut
EvaluatedNodes_WholeLap(order, feasible_nodes, num_of_nodes_to_find) == order

\* the positions passes_predicates is called on (scheduler.py line 66-68):
\* filter is lazy and list(islice(filtered, num_of_nodes_to_find)) stops
\* pulling from it with the num_of_nodes_to_find-th node that passes, and
\* pulls nothing when num_of_nodes_to_find is 0
EvaluatedNodes(order, feasible_nodes, num_of_nodes_to_find) ==
    IF num_of_nodes_to_find <= 0 THEN <<>>
    ELSE IF Len(feasible_nodes) < num_of_nodes_to_find THEN order
    ELSE SubSeq(order, 1, CHOOSE j \in 1..Len(order) :
                              order[j] = feasible_nodes[num_of_nodes_to_find])

\* a cursor that moves on by one when no node was accepted
NextIndex_EveryCall(index, feasible_nodes, n) ==
    IF Len(feasible_nodes) > 0
    THEN ((feasible_nodes[Len(feasible_nodes)] - 1) + 1) % n
    ELSE IF n > 0 THEN (index + 1) % n ELSE index

\* a cursor left on the last accepted node instead of one past it
NextIndex_OnLast(index, feasible_nodes, n) ==
    IF Len(feasible_nodes) > 0
    THEN (feasible_nodes[Len(feasible_nodes)] - 1) % n
    ELSE index

\* a cursor that always goes back to the start of the list
NextIndex_Reset(index, feasible_nodes, n) == 0

\* the cursor after the feasible list is known (scheduler.py line 69-70);
\* nodes.index(node) is the position of the node minus 1
NextIndex(index, feasible_nodes, n) ==
    IF Len(feasible_nodes) > 0
    THEN ((feasible_nodes[Len(feasible_nodes)] - 1) + 1) % n
    ELSE index

\* the scoring loop over the weighted priorities (scheduler.py line 77-85):
\* the running totals, or raised when a map_node_score raised.  ScoreStep is
\* the body of the loop once the priority has mapped the feasible nodes.
RECURSIVE ScoreNodes(_, _, _, _, _)
RECURSIVE ScoreStep(_, _, _, _, _, _)
ScoreNodes(prios, ctx, pod, feasible_nodes, scored_nodes) ==
    IF prios = <<>> THEN [raised |-> FALSE, scored_nodes |-> scored_nodes]
    ELSE ScoreStep(prios, ctx, pod, feasible_nodes, scored_nodes,
                   [i \in 1..Len(feasible_nodes) |->
                       map_node_score(Head(prios)[2], ctx, pod, ctx.nodes[feasible_nodes[i]])])

\* list(map(add, weighted_node_scores, scored_nodes)) with
\* weighted_node_scores = [score * weight for score in reduced_node_scores]
AddWeighted(weight, reduced_node_scores, scored_nodes) ==
    [i \in 1..Len(scored_nodes) |-> reduced_node_scores[i] * weight + scored_nodes[i]]

ScoreStep(prios, ctx, pod, feasible_nodes, scored_nodes, mapped) ==
    IF \E i \in 1..Len(feasible_nodes) : mapped[i].raised
    THEN [raised |-> TRUE, scored_nodes |-> scored_nodes]
    ELSE ScoreNodes(Tail(prios), ctx, pod, feasible_nodes,
                    AddWeighted(Head(prios)[1],
                                reduce_mapped_score(Head(prios)[2], ctx, pod, feasible_nodes,
                                    [i \in 1..Len(feasible_nodes) |-> mapped[i].value]),
                                scored_nodes))

\* a choice of the last node with the highest total
SuggestedHost_LastMax(feasible_nodes, scored_nodes) ==
    IF feasible_nodes = <<>> THEN None
    ELSE LET best == CHOOSE i \in 1..Len(feasible_nodes) :
                       /\ \A j \in 1..Len(feasible_nodes) : scored_nodes[j] <= scored_nodes[i]
                       /\ \A j \in (i + 1)..Len(feasible_nodes) : scored_nodes[j] < scored_nodes[i]
         IN Some(feasible_nodes[best])

\* max(scored_named_nodes, key=itemgetter(1), default=(None, 0)) and
\* next(iter(...)): the position of the first node with the highest total
SuggestedHost(feasible_nodes, scored_nodes) ==
    IF feasible_nodes = <<>> THEN None
    ELSE LET best == CHOOSE i \in 1..Len(feasible_nodes) :
                       /\ \A j \in 1..Len(feasible_nodes) : scored_nodes[j] <= scored_nodes[i]
                       /\ \A j \in 1..(i - 1) : scored_nodes[j] < scored_nodes[i]
         IN Some(feasible_nodes[best])

\* the needed_images loop (scheduler.py line 97-100)
RECURSIVE NeededImages(_, _, _)
NeededImages(ctx, containers, host_name) ==
    IF containers = <<>> THEN <<>>
    ELSE LET name == normalize_image_name(Head(containers).image)
             rest == NeededImages(ctx, Tail(containers), host_name)
         IN IF name \notin DOMAIN ctx.images_on_nodes[host_name]
            THEN <<name>> \o rest ELSE rest

\* the context with the flag that tells whether the call raised
WithRaised(ctx, raised) ==
    [nodes |-> ctx.nodes, image_states |-> ctx.image_states,
     images_on_nodes |-> ctx.images_on_nodes, storage_index |-> ctx.storage_index,
     raised |-> raised]

\* Scheduler.schedule(pod) as a function of the state before the call: the
\* context and cursor after it, what it returned (result = None when it
\* raised), and what it computed on the way.  The steps of the method are
\* chained operators, each given the values the method has computed so far.

\* scheduler.py line 102-107, given the chosen host and the needed images
schedule_commit(index, seen, host_name, needed_images, placed) ==
    [ctx |-> placed, index |-> index, seen |-> seen,
     result |-> IF placed.raised THEN None
                ELSE Some(SchedulingResult(Some(host_name), Len(seen.feasible_nodes),
                                           Some(needed_images)))]

\* a return that reports an empty list of needed images when there is no host
schedule_host_EmptyNeeded(ctx, pod, index, seen, suggested_host) ==
    IF suggested_host = None
    THEN [ctx |-> WithRaised(ctx, FALSE), index |-> index, seen |-> seen,
          result |-> Some(SchedulingResult(None, Len(seen.feasible_nodes), Some(<<>>)))]
    ELSE schedule_commit(index, seen, ctx.nodes[Get(suggested_host)].name,
                         NeededImages(ctx, pod.spec.containers,
                                      ctx.nodes[Get(suggested_host)].name),
                         place_pod_on_node(ctx, pod, Get(suggested_host)))

\* scheduler.py line 93-107, given suggested_host
schedule_host(ctx, pod, index, seen, suggested_host) ==
    IF suggested_host = None
    THEN [ctx |-> WithRaised(ctx, FALSE), index |-> index, seen |-> seen,
          result |-> Some(SchedulingResult(None, Len(seen.feasible_nodes), None))]
    ELSE schedule_commit(index, seen, ctx.nodes[Get(suggested_host)].name,
                         NeededImages(ctx, pod.spec.containers,
                                      ctx.nodes[Get(suggested_host)].name),
                         place_pod_on_node(ctx, pod, Get(suggested_host)))

\* scheduler.py line 86-107, given the outcome of the scoring loop
schedule_scored(ctx, pod, index, seen, scoring) ==
    IF scoring.raised
    THEN [ctx |-> WithRaised(ctx, TRUE), index |-> index, seen |-> seen, result |-> None]
    ELSE schedule_host(ctx, pod, index,
                       [seen EXCEPT !.scored_nodes = scoring.scored_nodes],
                       SuggestedHost(seen.feasible_nodes, scoring.scored_nodes))

\* scheduler.py line 69-107, given the feasible list
schedule_feasible(ctx, prios, index, pod, num_of_nodes_to_find, order, feasible_nodes) ==
    schedule_scored(ctx, pod, NextIndex(index, feasible_nodes, Len(ctx.nodes)),
                    [num_of_nodes_to_find |-> num_of_nodes_to_find, order |-> order,
                     evaluated |-> EvaluatedNodes(order, feasible_nodes, num_of_nodes_to_find),
                     feasible_nodes |-> feasible_nodes, scored_nodes |-> <<>>],
                    ScoreNodes(prios, ctx, pod, feasible_nodes,
                               [i \in 1..Len(feasible_nodes) |-> 0]))

\* scheduler.py line 66-107, given the target and the inspection order
schedule_sampled(ctx, preds, prios, index, pod, num_of_nodes_to_find, order) ==
    schedule_feasible(ctx, prios, index, pod, num_of_nodes_to_find, order,
                      TakeFeasible(preds, ctx, pod, order, num_of_nodes_to_find))

schedule(ctx, preds, prios, percentage, index, pod) ==
    schedule_sampled(ctx, preds, prios, index, pod,
                     num_feasible_nodes_to_find(Len(ctx.nodes), percentage),
                     InspectionOrder(Len(ctx.nodes), index))

----------------------------------------------------------------------------
(* The inputs: clusters, images, pods and scheduler configurations *)

Dict1(k, v) == [x \in {k} |-> v]
Dict2(k1, v1, k2, v2) == [x \in {k1, k2} |-> IF x = k1 THEN v1 ELSE v2]
Dict3(k1, v1, k2, v2, k3, v3) ==
    [x \in {k1, k2, k3} |-> IF x = k1 THEN v1 ELSE IF x = k2 THEN v2 ELSE v3]

ImageA == <<"a">>
ImageALatest == <<"a", ":", "l", "a", "t", "e", "s", "t">>
ImageB1 == <<"r", ":", "5", "/", "b", ":", "1">>
ImageC == <<"r", ":", "5", "/", "c">>

\* the image states the context is constructed with (sizes in bytes per
\* architecture, in insertion order)
InitialImageStates ==
    [img \in {ImageALatest, ImageB1} |->
        IF img = ImageALatest
        THEN ImageState(<< <<"amd64", 400>>, <<"arm", 300>> >>, 0)
        ELSE ImageState(<< <<"arm", 600>> >>, 0)]

\* the storage index the context is constructed with: bucket 'in' on node n1
\* holding the item in/obj of 100 bytes
InitialStorageIndex ==
    [buckets |-> Dict1("in", {NodeName(1)}),
     items |-> Dict1(<<"in", "obj">>, [bucket |-> "in", name |-> "obj", size |-> 100]),
     tree |-> Dict1(<<"in", "obj">>, {NodeName(1)})]

LabelsEdge == Dict3("beta.kubernetes.io/arch", "amd64",
                    "locality.skippy.io/type", "edge",
                    "capability.skippy.io/nvidia-cuda", "10")
LabelsCloud == Dict2("beta.kubernetes.io/arch", "arm",
                     "locality.skippy.io/type", "cloud")
LabelsArm == Dict2("beta.kubernetes.io/arch", "arm",
                   "capability.skippy.io/nvidia-cuda", "10")

\* the node lists of the small clusters
\* the call the initial index was filled with: put(DataItem('in', 'obj', 100))
\* while n1 hosted the bucket
InitialPuts ==
    Dict1(<<"in", "obj">>, [last |-> [bucket |-> "in", name |-> "obj", size |-> 100],
                            hosts |-> {NodeName(1)}])

Clusters ==
    { <<>>,
      << Node(NodeName(1), None, Some(Capacity(250, 300)), Some(LabelsEdge)) >>,
      << Node(NodeName(1), None, None, Some(LabelsCloud)),
         Node(NodeName(2), Some(Capacity(500, 512)), None, Some(LabelsEdge)) >>,
      << Node(NodeName(1), Some(Capacity(2000, 2048)), Some(Capacity(400, 500)), Some(LabelsArm)),
         Node(NodeName(2), Some(Capacity(2000, 2048)), Some(Capacity(400, 500)), Some(LabelsArm)),
         Node(NodeName(3), Some(Capacity(1000, 1024)), Some(Capacity(50, 1024)), Some(LabelsEdge)) >> }

\* PodSpec(containers, labels)
PodSpec(containers, labels) == [containers |-> containers, labels |-> labels]

\* Pod(name, namespace, spec)
Pod(name, namespace, spec) == [name |-> name, namespace |-> namespace, spec |-> spec]

PodName(i) == "pod" \o ToString(i)

\* the pod specs submitted: default requests with an untagged image; explicit
\* requests; two containers of one image, the second with a cpu request only;
\* a second container whose image has no image state; a pod too big for any node
PodSpecs ==
    { PodSpec(<< Container(ImageA, None) >>,
              Dict1("data.skippy.io/receives-from-storage/path", <<"in", "obj">>)),
      PodSpec(<< Container(ImageALatest,
                           Some(ResourceRequirements(Some(Dict2("cpu", 50, "memory", 50))))) >>,
              Dict1("capability.skippy.io/nvidia-cuda", "10")),
      PodSpec(<< Container(ImageB1, None),
                 Container(ImageB1, Some(ResourceRequirements(Some(Dict1("cpu", 50))))) >>,
              EmptyDict),
      PodSpec(<< Container(ImageA, Some(ResourceRequirements(Some(EmptyDict)))),
                 Container(ImageC, None) >>,
              EmptyDict),
      PodSpec(<< Container(ImageA,
                           Some(ResourceRequirements(Some(Dict2("cpu", 3000, "memory", 100))))) >>,
              EmptyDict) }

\* the scheduler configurations: <<predicates, priorities>>
Configurations ==
    { <<default_predicates, default_priorities>>,
      << <<"GeneralPreds">>, << <<2, "LocalityTypePriority">>, <<1, "CapabilityPriority">> >> >>,
      << <<"PodFitsResourcesPred">>, << <<1, "EqualPriority">> >> >> }

----------------------------------------------------------------------------
(* The specification of the small clusters *)

NoCall == [op |-> "none", pod |-> Pod("", "", PodSpec(<<>>, EmptyDict)), node |-> 0,
           pre |-> Context, pre_index |-> 0, raised |-> FALSE, result |-> None,
           seen |-> [num_of_nodes_to_find |-> 0, order |-> <<>>, evaluated |-> <<>>,
                     feasible_nodes |-> <<>>, scored_nodes |-> <<>>]]

NoProbe == [op |-> "none", args |-> <<>>, value |-> <<>>]

InitWith(cluster, config, percentage) ==
    /\ nodes = cluster
    /\ image_states = InitialImageStates
    /\ images_on_nodes = [name \in {cluster[i].name : i \in 1..Len(cluster)} |-> EmptyDict]
    /\ storage_index = InitialStorageIndex
    /\ last_scored_node_index = 0
    /\ percentage_of_nodes_to_score = percentage
    /\ predicates = config[1]
    /\ priorities = config[2]
    /\ call = NoCall
    /\ hist = <<>>
    /\ probe = NoProbe
    /\ ncalls = 0
    /\ scheduler_b = [last_scored_node_index |-> 0,
                      percentage_of_nodes_to_score |-> percentage,
                      predicates |-> config[1], priorities |-> config[2]]
    /\ context_b = [nodes |-> cluster, image_states |-> InitialImageStates]
    /\ puts = InitialPuts

Init == \E cluster \in Clusters, config \in Configurations : InitWith(cluster, config, 100)

\* the last MaxHist entries of the history with one more
Remember(h, entry) ==
    LET all == Append(h, entry)
    IN IF Len(all) > MaxHist THEN Tail(all) ELSE all

\* a call that keeps the cursor in the class attribute, where the other
\* scheduler reads it too
ScheduleReturns_ClassCursor(pod, out) ==
    /\ nodes' = out.ctx.nodes
    /\ image_states' = out.ctx.image_states
    /\ images_on_nodes' = out.ctx.images_on_nodes
    /\ last_scored_node_index' = out.index
    /\ scheduler_b' = [scheduler_b EXCEPT !.last_scored_node_index = out.index]
    /\ call' = [op |-> "schedule", pod |-> pod, node |-> 0, pre |-> Context,
                pre_index |-> last_scored_node_index, raised |-> out.ctx.raised,
                result |-> out.result, seen |-> out.seen]
    /\ hist' = Remember(hist,
                  [feasible_nodes |-> out.seen.feasible_nodes,
                   all_pass |-> \A i \in 1..Len(nodes) :
                                   passes_predicates(predicates, Context, pod, nodes[i])])
    /\ ncalls' = ncalls + 1
    /\ UNCHANGED <<percentage_of_nodes_to_score, predicates, priorities, storage_index, probe,
                   context_b, puts>>

\* the state after a call of Scheduler.schedule(pod) with outcome out
ScheduleReturns(pod, out) ==
    /\ nodes' = out.ctx.nodes
    /\ image_states' = out.ctx.image_states
    /\ images_on_nodes' = out.ctx.images_on_nodes
    /\ last_scored_node_index' = out.index
    /\ call' = [op |-> "schedule", pod |-> pod, node |-> 0, pre |-> Context,
                pre_index |-> last_scored_node_index, raised |-> out.ctx.raised,
                result |-> out.result, seen |-> out.seen]
    /\ hist' = Remember(hist,
                  [feasible_nodes |-> out.seen.feasible_nodes,
                   all_pass |-> \A i \in 1..Len(nodes) :
                                   passes_predicates(predicates, Context, pod, nodes[i])])
    /\ ncalls' = ncalls + 1
    /\ UNCHANGED <<percentage_of_nodes_to_score, predicates, priorities, storage_index, probe,
                   scheduler_b, context_b, puts>>

\* a call of Scheduler.schedule(pod)
Schedule(spec) ==
    /\ ncalls < MaxCalls
    /\ ScheduleReturns(Pod(PodName(ncalls + 1), "default", spec),
                       schedule(Context, predicates, priorities, percentage_of_nodes_to_score,
                                last_scored_node_index,
                                Pod(PodName(ncalls + 1), "default", spec)))

\* the state after a call of place_pod_on_node(pod, node) with outcome out
PlaceReturns(pod, n, out) ==
    /\ nodes' = out.nodes
    /\ image_states' = out.image_states
    /\ images_on_nodes' = out.images_on_nodes
    /\ call' = [NoCall EXCEPT !.op = "place", !.pod = pod, !.node = n,
                              !.pre = Context, !.pre_index = last_scored_node_index,
                              !.raised = out.raised]
    /\ ncalls' = ncalls + 1
    /\ UNCHANGED <<last_scored_node_index, percentage_of_nodes_to_score, predicates,
                   priorities, storage_index, hist, probe, scheduler_b, context_b, puts>>

\* a direct call of ClusterContext.place_pod_on_node(pod, node) with the
\* node at position n
PlacePodOnNode(spec, n) ==
    /\ ncalls < MaxCalls
    /\ PlaceReturns(Pod(PodName(ncalls + 1), "default", spec), n,
                    place_pod_on_node(Context, Pod(PodName(ncalls + 1), "default", spec), n))

Next ==
    \/ \E spec \in PodSpecs : Schedule(spec)
    \/ \E spec \in PodSpecs, n \in 1..Len(nodes) : PlacePodOnNode(spec, n)

Spec == Init /\ [][Next]_vars

----------------------------------------------------------------------------
(* The specification of the scheduler alone: schedule is the only call, on
   the small clusters and on clusters large enough for the sampling target
   to be smaller than the cluster *)

LabelsOf(i) == IF i % 3 = 0 THEN LabelsEdge ELSE IF i % 3 = 1 THEN LabelsCloud ELSE LabelsArm

\* a cluster of n nodes with room for every pod of the model
BigCluster(n) ==
    [i \in 1..n |-> Node(NodeName(i), Some(Capacity(100000, 100000)),
                         Some(Capacity(100000, 100000)), Some(LabelsOf(i)))]

BigClusterSizes == {min_feasible_nodes_percentage_to_find,
                    min_feasible_nodes_to_find + 1,
                    2 * min_feasible_nodes_to_find,
                    BigN}

Percentages == {100, 50, 0}

InitSched ==
    \/ Init
    \/ \E n \in BigClusterSizes, percentage \in Percentages :
          InitWith(BigCluster(n), <<default_predicates, << <<1, "LocalityTypePriority">> >> >>,
                   percentage)

NextSched == \E spec \in PodSpecs : Schedule(spec)

SpecSched == InitSched /\ [][NextSched]_vars

----------------------------------------------------------------------------
(* The specification of the sampling: schedule is the only call, on the small
   clusters and on large clusters in which every third node is too small for
   the pods with default requests, so that the walk skips nodes and reaches
   its target before the lap ends *)

MixedCluster(n) ==
    [i \in 1..n |-> Node(NodeName(i), Some(Capacity(100000, 100000)),
                         Some(IF i % 3 = 0 THEN Capacity(50, 1024)
                              ELSE Capacity(100000, 100000)),
                         Some(LabelsOf(i)))]

InitSampling ==
    \/ Init
    \/ \E n \in {2 * min_feasible_nodes_to_find, BigN}, percentage \in {50, 0} :
          InitWith(MixedCluster(n), <<default_predicates, << <<1, "LocalityTypePriority">> >> >>,
                   percentage)

SpecSampling == InitSampling /\ [][NextSched]_vars

----------------------------------------------------------------------------
(* The specification of the pure functions: the inputs are drawn from
   bounded sets and an action applies the function *)

NumNodesInputs == (0..12) \cup {k * 125 + d : k \in 0..MaxProbe, d \in {-1, 0, 1}}
PercentageInputs == {-5, 0, 1, 5, 33, 50, 99, 100, 150}

InitPure == InitWith(<<>>, <<default_predicates, default_priorities>>, 100)

Apply_num_feasible_nodes_to_find(num_all_nodes, percentage) ==
    /\ probe.op = "none"
    /\ probe' = [op |-> "num_feasible_nodes_to_find",
                 args |-> <<num_all_nodes, percentage>>,
                 value |-> num_feasible_nodes_to_find(num_all_nodes, percentage)]
    /\ UNCHANGED <<nodes, image_states, images_on_nodes, last_scored_node_index,
                   percentage_of_nodes_to_score, predicates, priorities, storage_index,
                   call, hist, ncalls, scheduler_b, context_b, puts>>

\* the strings over alphabet of length at most n
RECURSIVE Strings(_, _)
Strings(alphabet, n) ==
    IF n = 0 THEN {<<>>}
    ELSE Strings(alphabet, n - 1) \cup
         {Append(x, ch) : x \in {y \in Strings(alphabet, n - 1) : Len(y) = n - 1},
                          ch \in alphabet}

\* image names: letters, tags and paths
ImageNameInputs == Strings({"a", ":", "/"}, MaxNameLen)

Apply_normalize_image_name(image_name) ==
    /\ probe.op = "none"
    /\ probe' = [op |-> "normalize_image_name", args |-> <<image_name>>,
                 value |-> normalize_image_name(image_name)]
    /\ UNCHANGED <<nodes, image_states, images_on_nodes, last_scored_node_index,
                   percentage_of_nodes_to_score, predicates, priorities, storage_index,
                   call, hist, ncalls, scheduler_b, context_b, puts>>

\* normalize_image_name applied to the name the last application returned
Reapply_normalize_image_name ==
    /\ probe.op = "normalize_image_name"
    /\ probe' = [op |-> "normalize_image_name twice", args |-> probe.args,
                 first |-> probe.value, value |-> normalize_image_name(probe.value)]
    /\ UNCHANGED <<nodes, image_states, images_on_nodes, last_scored_node_index,
                   percentage_of_nodes_to_score, predicates, priorities, storage_index,
                   call, hist, ncalls, scheduler_b, context_b, puts>>

\* size strings: digits with leading zeros and carries, every unit letter, a
\* lower-case letter and a character that is neither digit nor letter
SizeStringInputs ==
    Strings({"0", "1", "9", "K", "M", "G", "T", "P", "E", "i", "k", "."}, MaxSizeLen)

Apply_parse_size_string(size_string) ==
    /\ probe.op = "none"
    /\ probe' = [op |-> "parse_size_string", args |-> <<size_string>>,
                 value |-> parse_size_string(size_string)]
    /\ UNCHANGED <<nodes, image_states, images_on_nodes, last_scored_node_index,
                   percentage_of_nodes_to_score, predicates, priorities, storage_index,
                   call, hist, ncalls, scheduler_b, context_b, puts>>

\* the vectors of scores: sequences of non-negative integers
RECURSIVE Vectors(_, _)
Vectors(values, n) ==
    IF n = 0 THEN {<<>>}
    ELSE Vectors(values, n - 1) \cup
         {Append(x, v) : x \in {y \in Vectors(values, n - 1) : Len(y) = n - 1}, v \in values}

ScoreVectors == Vectors({0, 1, 2, 3, 7, 12}, MaxVecLen)
ScaleTargets == {max_priority, 3}

Apply_LocalityPriority_reduce(node_scores) ==
    /\ probe.op = "none"
    /\ probe' = [op |-> "LocalityPriority.reduce_mapped_score", args |-> <<node_scores>>,
                 value |-> LocalityPriority_reduce(node_scores)]
    /\ UNCHANGED <<nodes, image_states, images_on_nodes, last_scored_node_index,
                   percentage_of_nodes_to_score, predicates, priorities, storage_index,
                   call, hist, ncalls, scheduler_b, context_b, puts>>

Apply_scale_scores(scores, t_max) ==
    /\ probe.op = "none"
    /\ probe' = [op |-> "_scale_scores", args |-> <<scores, t_max>>,
                 value |-> _scale_scores(scores, t_max)]
    /\ UNCHANGED <<nodes, image_states, images_on_nodes, last_scored_node_index,
                   percentage_of_nodes_to_score, predicates, priorities, storage_index,
                   call, hist, ncalls, scheduler_b, context_b, puts>>

Apply_scale_scores_inverse(scores, t_max) ==
    /\ probe.op = "none"
    /\ probe' = [op |-> "_scale_scores_inverse", args |-> <<scores, t_max>>,
                 value |-> _scale_scores_inverse(scores, t_max)]
    /\ UNCHANGED <<nodes, image_states, images_on_nodes, last_scored_node_index,
                   percentage_of_nodes_to_score, predicates, priorities, storage_index,
                   call, hist, ncalls, scheduler_b, context_b, puts>>

NextPure ==
    \/ /\ probe.op = "none"
       /\ \E node_scores \in ScoreVectors : Apply_LocalityPriority_reduce(node_scores)
    \/ /\ probe.op = "none"
       /\ \E scores \in ScoreVectors, t_max \in ScaleTargets : Apply_scale_scores(scores, t_max)
    \/ /\ probe.op = "none"
       /\ \E scores \in ScoreVectors, t_max \in ScaleTargets :
             Apply_scale_scores_inverse(scores, t_max)
    \/ /\ probe.op = "none"
       /\ \E size_string \in SizeStringInputs : Apply_parse_size_string(size_string)
    \/ \E num_all_nodes \in NumNodesInputs \ {-1}, percentage \in PercentageInputs :
          Apply_num_feasible_nodes_to_find(num_all_nodes, percentage)
    \/ /\ probe.op = "none"
       /\ \E image_name \in ImageNameInputs : Apply_normalize_image_name(image_name)
    \/ Reapply_normalize_image_name

SpecPure == InitPure /\ [][NextPure]_vars

----------------------------------------------------------------------------
(* The specification of a scheduler constructed with predicates=[] (every
   node is feasible) over the clusters of several nodes, with the balanced
   resource priority.  On these clusters the float arithmetic of the scorer
   and the exact arithmetic of the model give the same scores. *)

NoPredicatesConfiguration == << <<>>, << <<1, "BalancedResourcePriority">> >> >>

InitNoPredicates ==
    \E cluster \in {c \in Clusters : Len(c) >= 2} :
        InitWith(cluster, NoPredicatesConfiguration, 100)

SpecNoPredicates == InitNoPredicates /\ [][Next]_vars

----------------------------------------------------------------------------
(* The specification of the calls that ask without placing: after some
   direct placements (which may overcommit a node) the resource-fit predicate
   is called once for a pod and a node, or get_image_state for a name. *)

Apply_PodFitsResourcesPred(spec, n) ==
    /\ probe.op = "none"
    /\ probe' = [op |-> "PodFitsResourcesPred",
                 args |-> <<Pod(PodName(ncalls + 1), "default", spec), n>>,
                 value |-> PodFitsResourcesPred(Context,
                               Pod(PodName(ncalls + 1), "default", spec), nodes[n]),
                 pre |-> Context]
    \* the method assigns only to its local requested
    /\ UNCHANGED <<nodes, image_states, images_on_nodes, last_scored_node_index,
                   percentage_of_nodes_to_score, predicates, priorities, storage_index,
                   call, hist, ncalls, scheduler_b, context_b, puts>>

PlaceBeforeQuery(spec, n) ==
    /\ probe.op = "none"
    /\ ncalls < MaxPlacements
    /\ PlacePodOnNode(spec, n)

\* the names get_image_state is asked for: stored ones, an image no state
\* is stored for, and a name that is not normalized
ImageNames == {ImageALatest, ImageB1, normalize_image_name(ImageC), ImageA}

Apply_get_image_state(image_name) ==
    /\ probe.op = "none"
    /\ probe' = [op |-> "get_image_state", args |-> <<image_name>>,
                 value |-> get_image_state(Context, image_name), pre |-> Context]
    /\ image_states' = get_image_state(Context, image_name).image_states
    /\ UNCHANGED <<nodes, images_on_nodes, last_scored_node_index,
                   percentage_of_nodes_to_score, predicates, priorities, storage_index,
                   call, hist, ncalls, scheduler_b, context_b, puts>>

NextQueries ==
    \/ \E spec \in PodSpecs, n \in 1..Len(nodes) : PlaceBeforeQuery(spec, n)
    \/ \E spec \in PodSpecs, n \in 1..Len(nodes) : Apply_PodFitsResourcesPred(spec, n)
    \/ \E image_name \in ImageNames : Apply_get_image_state(image_name)

InitQueries ==
    \E cluster \in Clusters : InitWith(cluster, <<default_predicates, default_priorities>>, 100)

SpecQueries == InitQueries /\ [][NextQueries]_vars

----------------------------------------------------------------------------
(* The specification of the image-locality score: after some direct
   placements (which fill the image caches) map_node_score of
   LatencyAwareImageLocalityPriority is called once for a pod and a node. *)

\* the pods that are scored: those that are submitted, and pods whose first
\* image has no size for the architecture of some node while a later one has
ScoredPodSpecs ==
    PodSpecs \cup
    { PodSpec(<< Container(ImageB1, None), Container(ImageA, None) >>, EmptyDict),
      PodSpec(<< Container(ImageALatest, None), Container(ImageB1, None),
                 Container(ImageA, None) >>, EmptyDict) }

Apply_LatencyAwareImageLocalityPriority_map(spec, n) ==
    /\ probe.op = "none"
    /\ probe' = [op |-> "LatencyAwareImageLocalityPriority.map_node_score",
                 args |-> <<Pod(PodName(ncalls + 1), "default", spec), n>>,
                 value |-> LatencyAwareImageLocalityPriority_map(Context,
                               Pod(PodName(ncalls + 1), "default", spec), nodes[n]),
                 pre |-> Context]
    \* get_size and map_node_score assign to their locals only
    /\ UNCHANGED <<nodes, image_states, images_on_nodes, last_scored_node_index,
                   percentage_of_nodes_to_score, predicates, priorities, storage_index,
                   call, hist, ncalls, scheduler_b, context_b, puts>>

NextImageScores ==
    \/ \E spec \in PodSpecs, n \in 1..Len(nodes) : PlaceBeforeQuery(spec, n)
    \/ \E spec \in ScoredPodSpecs, n \in 1..Len(nodes) :
          Apply_LatencyAwareImageLocalityPriority_map(spec, n)

SpecImageScores == InitQueries /\ [][NextImageScores]_vars

----------------------------------------------------------------------------
(* The specification of two schedulers over one context: the scheduler of
   the other specifications and scheduler_b, constructed alike, called in any
   order. *)

\* the state after a call of schedule(pod) on scheduler_b with outcome out:
\* self.last_scored_node_index = ... (scheduler.py line 70) sets the
\* attribute of the instance the method was called on
ScheduleBReturns(pod, out) ==
    /\ nodes' = out.ctx.nodes
    /\ image_states' = out.ctx.image_states
    /\ images_on_nodes' = out.ctx.images_on_nodes
    /\ scheduler_b' = [scheduler_b EXCEPT !.last_scored_node_index = out.index]
    /\ call' = [op |-> "schedule_b", pod |-> pod, node |-> 0, pre |-> Context,
                pre_index |-> scheduler_b.last_scored_node_index, raised |-> out.ctx.raised,
                result |-> out.result, seen |-> out.seen]
    /\ ncalls' = ncalls + 1
    /\ UNCHANGED <<last_scored_node_index, percentage_of_nodes_to_score, predicates,
                   priorities, storage_index, hist, probe, context_b, puts>>

\* a call of schedule(pod) on scheduler_b
ScheduleB(spec) ==
    /\ ncalls < MaxCalls
    /\ ScheduleBReturns(Pod(PodName(ncalls + 1), "default", spec),
                        schedule(Context, scheduler_b.predicates, scheduler_b.priorities,
                                 scheduler_b.percentage_of_nodes_to_score,
                                 scheduler_b.last_scored_node_index,
                                 Pod(PodName(ncalls + 1), "default", spec)))

NextTwoSchedulers ==
    \/ \E spec \in PodSpecs : Schedule(spec)
    \/ \E spec \in PodSpecs : ScheduleB(spec)

SpecTwoSchedulers == Init /\ [][NextTwoSchedulers]_vars

----------------------------------------------------------------------------
(* The specification of the storage index: buckets are made on nodes and
   items are put, starting from the index the contexts are constructed with. *)

DataItem(bucket, name, size) == [bucket |-> bucket, name |-> name, size |-> size]

BucketNames == {"in", "out"}
ItemNames == {"obj", "tmp"}
ItemSizes == {100, 7}

Mb(name, node) ==
    /\ ncalls < MaxStorageCalls
    /\ storage_index' = mb(storage_index, name, node)
    /\ probe' = [op |-> "mb", args |-> <<name, node>>, value |-> [raised |-> FALSE],
                 pre |-> storage_index]
    /\ ncalls' = ncalls + 1
    /\ UNCHANGED <<nodes, image_states, images_on_nodes, last_scored_node_index,
                   percentage_of_nodes_to_score, predicates, priorities,
                   call, hist, scheduler_b, context_b, puts>>

Put(data) ==
    /\ ncalls < MaxStorageCalls
    /\ storage_index' = put(storage_index, data).index
    /\ probe' = [op |-> "put", args |-> <<data>>,
                 value |-> [raised |-> put(storage_index, data).raised],
                 pre |-> storage_index]
    \* the record of the calls with this one: data was given while the nodes
    \* of buckets[data.bucket] hosted its bucket
    /\ puts' = [k \in DOMAIN puts \cup {<<data.bucket, data.name>>} |->
                   IF k = <<data.bucket, data.name>>
                   THEN [last |-> data,
                         hosts |-> (IF k \in DOMAIN puts THEN puts[k].hosts ELSE {}) \cup
                                   (IF data.bucket \in DOMAIN storage_index.buckets
                                    THEN storage_index.buckets[data.bucket] ELSE {})]
                   ELSE puts[k]]
    /\ ncalls' = ncalls + 1
    /\ UNCHANGED <<nodes, image_states, images_on_nodes, last_scored_node_index,
                   percentage_of_nodes_to_score, predicates, priorities,
                   call, hist, scheduler_b, context_b>>

NextStorage ==
    \/ \E name \in BucketNames, node \in {NodeName(1), NodeName(2)} : Mb(name, node)
    \/ \E bucket \in BucketNames, name \in ItemNames, size \in ItemSizes :
          Put(DataItem(bucket, name, size))

InitStorage == InitWith(<<>>, <<default_predicates, default_priorities>>, 100)

SpecStorage == InitStorage /\ [][NextStorage]_vars

----------------------------------------------------------------------------
(* The specification of two contexts: a second ClusterContext, constructed
   like the first over nodes of the same names, and place_pod_on_node called
   through either. *)

\* the second context as place_pod_on_node reads it: self.nodes and
\* self.image_states are attributes of the instance (clustercontext.py line
\* 27), self.images_on_nodes is found on the class (line 17; __init__ does
\* not assign it)
ContextB == [nodes |-> context_b.nodes, image_states |-> context_b.image_states,
             images_on_nodes |-> images_on_nodes, storage_index |-> storage_index]

\* the state after a call of place_pod_on_node(pod, node) on the second
\* context with outcome out
PlaceBReturns(pod, n, out) ==
    /\ context_b' = [nodes |-> out.nodes, image_states |-> out.image_states]
    /\ images_on_nodes' = out.images_on_nodes
    /\ call' = [NoCall EXCEPT !.op = "place_b", !.pod = pod, !.node = n,
                              !.pre = ContextB, !.pre_index = last_scored_node_index,
                              !.raised = out.raised]
    /\ ncalls' = ncalls + 1
    /\ UNCHANGED <<nodes, image_states, last_scored_node_index,
                   percentage_of_nodes_to_score, predicates, priorities, storage_index,
                   hist, probe, scheduler_b, puts>>

PlacePodOnNodeB(spec, n) ==
    /\ ncalls < MaxPlacements
    /\ PlaceBReturns(Pod(PodName(ncalls + 1), "default", spec), n,
                     place_pod_on_node(ContextB, Pod(PodName(ncalls + 1), "default", spec), n))

NextTwoContexts ==
    \/ \E spec \in PodSpecs, n \in 1..Len(nodes) : PlaceBeforeQuery(spec, n)
    \/ \E spec \in PodSpecs, n \in 1..Len(context_b.nodes) : PlacePodOnNodeB(spec, n)

SpecTwoContexts == InitQueries /\ [][NextTwoContexts]_vars

----------------------------------------------------------------------------
(* The specification of the data-locality score: buckets are made on the
   nodes of the cluster and items are put, and map_node_score of
   DataLocalityPriority is called for a pod and a node. *)

ReceivesLabel == "data.skippy.io/receives-from-storage/path"
SendsLabel == "data.skippy.io/sends-to-storage/path"

\* pods without a path label, with one, and with both; paths of items that
\* are in the index from the start, put later, or never
DataPodSpecs ==
    { PodSpec(<< Container(ImageA, None) >>, labels) :
        labels \in { EmptyDict,
                     Dict1(ReceivesLabel, <<"in", "obj">>),
                     Dict1(SendsLabel, <<"in", "obj">>),
                     Dict2(ReceivesLabel, <<"in", "obj">>, SendsLabel, <<"in", "obj">>),
                     Dict2(ReceivesLabel, <<"in", "obj">>, SendsLabel, <<"out", "obj">>),
                     Dict1(ReceivesLabel, <<"out", "tmp">>) } }

Apply_DataLocalityPriority_map(spec, n) ==
    /\ probe.op # "DataLocalityPriority.map_node_score"
    /\ probe' = [op |-> "DataLocalityPriority.map_node_score",
                 args |-> <<Pod(PodName(1), "default", spec), n>>,
                 value |-> DataLocalityPriority_map(Context,
                               Pod(PodName(1), "default", spec), nodes[n]),
                 pre |-> Context]
    \* the index and the graph are read only
    /\ UNCHANGED <<nodes, image_states, images_on_nodes, last_scored_node_index,
                   percentage_of_nodes_to_score, predicates, priorities, storage_index,
                   call, hist, ncalls, scheduler_b, context_b, puts>>

NextDataScores ==
    \/ \E name \in BucketNames, n \in 1..Len(nodes) : Mb(name, nodes[n].name)
    \/ \E bucket \in BucketNames, size \in ItemSizes : Put(DataItem(bucket, "obj", size))
    \/ \E spec \in DataPodSpecs, n \in 1..Len(nodes) : Apply_DataLocalityPriority_map(spec, n)

InitDataScores ==
    \E cluster \in {c \in Clusters : Len(c) >= 2} :
        InitWith(cluster, <<default_predicates, << <<1, "DataLocalityPriority">> >> >>, 100)

SpecDataScores == InitDataScores /\ [][NextDataScores]_vars

----------------------------------------------------------------------------
(* What the properties speak about *)

\* the last call was schedule / it returned a result / it returned a host
Scheduled == call.op = "schedule"
Returned == Scheduled /\ call.result # None
HostReturned == Returned /\ Get(call.result).suggested_host # None
HostName == Get(Get(call.result).suggested_host)

\* the position in list_nodes() of the node called name
PositionOf(name) == CHOOSE i \in 1..Len(nodes) : nodes[i].name = name

\* the node a pod was placed on by the last call, when it placed one
PlacedCall == (call.op = "place" /\ ~call.raised) \/ HostReturned
PlacedOn == IF call.op = "place" THEN call.node ELSE PositionOf(HostName)

\* the sum over the pod's containers of the request called key, the default
\* standing in for a container whose request map lacks the key
RequestOf(c, key, default) ==
    IF key \in DOMAIN c.resources.requests THEN c.resources.requests[key] ELSE default
TotalRequest(pod, key, default) ==
    SumSeq([i \in 1..Len(pod.spec.containers) |->
               RequestOf(pod.spec.containers[i], key, default)])
TotalCpu(pod) == TotalRequest(pod, "cpu", default_milli_cpu_request)
TotalMemory(pod) == TotalRequest(pod, "memory", default_mem_request)

\* the pod's requests fit into what the node has left
Fits(pod, node) ==
    /\ TotalCpu(pod) <= node.allocatable.cpu_millis
    /\ TotalMemory(pod) <= node.allocatable.memory

\* the node passes every configured predicate: each of them is the resource
\* fit or a conjunction of resource fits
PassesAll(pod, node) == Len(predicates) > 0 => Fits(pod, node)

----------------------------------------------------------------------------
(* C1.  Whenever schedule(pod) returns a host, that node passed every
   configured predicate for the pod on the cluster state as it was when the
   call started. *)
C1_ReturnedHostPassedPredicates ==
    HostReturned => PassesAll(call.pod, call.pre.nodes[PositionOf(HostName)])

\* a host was returned in a call in which some node failed the predicates
C1_Witness ==
    /\ HostReturned
    /\ \E i \in 1..Len(call.pre.nodes) : ~PassesAll(call.pod, call.pre.nodes[i])

(* C2.  place_pod_on_node(p, n) lowers n.allocatable.cpu_millis by the sum of
   the containers' 'cpu' requests and n.allocatable.memory by the sum of their
   'memory' requests (the default only where the key is missing), and
   afterwards p is in n.pods. *)
C2_PlaceDeductsRequests ==
    PlacedCall =>
        /\ nodes[PlacedOn].allocatable.cpu_millis =
              call.pre.nodes[PlacedOn].allocatable.cpu_millis - TotalCpu(call.pod)
        /\ nodes[PlacedOn].allocatable.memory =
              call.pre.nodes[PlacedOn].allocatable.memory - TotalMemory(call.pod)
        /\ call.pod.name \in Range(nodes[PlacedOn].pods)

(* C3.  In every reachable state, for every image, image_states[img].num_nodes
   is the number of nodes whose cache images_on_nodes[n] contains img. *)
C3_NumNodesCountsCachingNodes ==
    \A img \in DOMAIN image_states :
        image_states[img].num_nodes =
            Cardinality({i \in 1..Len(nodes) : img \in DOMAIN images_on_nodes[nodes[i].name]})

(* C4.  Under a scheduler that uses the resource-fit predicate, after any
   sequence of schedule calls no node's allocatable cpu_millis or memory is
   negative. *)
C4_AllocatableNeverNegative ==
    (\E i \in 1..Len(predicates) : TRUE) =>
        \A i \in 1..Len(nodes) :
            nodes[i].allocatable.cpu_millis >= 0 /\ nodes[i].allocatable.memory >= 0

(* C5.  For every node, from its construction on, allocatable.cpu_millis <=
   capacity.cpu_millis and allocatable.memory <= capacity.memory. *)
C5_AllocatableWithinCapacity ==
    \A i \in 1..Len(nodes) :
        /\ nodes[i].allocatable.cpu_millis <= nodes[i].capacity.cpu_millis
        /\ nodes[i].allocatable.memory <= nodes[i].capacity.memory

(* C6.  When no node passes all predicates (also when there is no node),
   schedule does not raise and returns exactly
   SchedulingResult(suggested_host=None, feasible_nodes=0, needed_images=None),
   whatever the configured priorities are. *)
C6_NoFeasibleNodeReturnsNull ==
    (Scheduled /\ \A i \in 1..Len(call.pre.nodes) : ~PassesAll(call.pod, call.pre.nodes[i])) =>
        /\ ~call.raised
        /\ call.result = Some([suggested_host |-> None, feasible_nodes |-> 0,
                               needed_images |-> None])

\* a call under the default priorities on a cluster none of whose nodes fits
C6_Witness ==
    /\ Scheduled
    /\ priorities = default_priorities
    /\ Len(call.pre.nodes) > 0
    /\ \A i \in 1..Len(call.pre.nodes) : ~PassesAll(call.pod, call.pre.nodes[i])

(* C7.  With N > 0 nodes that all pass the predicates in every call and
   target = num_feasible_nodes_to_find(N), every node is in the feasible list
   of at least one of any ceil(N / target) consecutive schedule calls. *)
Target == num_feasible_nodes_to_find(Len(nodes), percentage_of_nodes_to_score)
CallsPerLap == (Len(nodes) + Target - 1) \div Target
LastCalls(k) == SubSeq(hist, Len(hist) - k + 1, Len(hist))

C7_EveryNodeVisitedPerLap ==
    (/\ Len(nodes) > 0
     /\ Len(hist) >= CallsPerLap
     /\ \A j \in 1..CallsPerLap : LastCalls(CallsPerLap)[j].all_pass) =>
        \A i \in 1..Len(nodes) :
            \E j \in 1..CallsPerLap : i \in Range(LastCalls(CallsPerLap)[j].feasible_nodes)

\* three calls were needed for a lap, and all three found every node passing
C7_Witness ==
    /\ Len(nodes) > 0
    /\ CallsPerLap = 3
    /\ Len(hist) >= 3
    /\ \A j \in 1..3 : LastCalls(3)[j].all_pass

(* C8.  After a schedule call that accepted at least one feasible node,
   last_scored_node_index is (i + 1) mod N for the index i in list_nodes() of
   the last node accepted, and the call started its inspection at the index
   the call before it had left. *)
C8_CursorFollowsLastFeasible ==
    (Scheduled /\ Len(nodes) > 0) =>
        /\ call.seen.order[1] - 1 = call.pre_index
        /\ Len(call.seen.feasible_nodes) > 0 =>
              last_scored_node_index =
                  (call.seen.feasible_nodes[Len(call.seen.feasible_nodes)] - 1 + 1) % Len(nodes)

\* a call that started in the middle of the list and left the cursor in the
\* middle of the list
C8_Witness ==
    /\ Scheduled
    /\ call.pre_index > 0
    /\ Len(call.seen.feasible_nodes) > 0
    /\ last_scored_node_index > 0
    /\ last_scored_node_index # call.pre_index

(* C9.  For N nodes and percentage p, num_feasible_nodes_to_find is N when
   N < 5 or p >= 100, and otherwise max(100, floor(N * pct / 100)) with
   pct = p when p > 0 and pct = max(5, 50 - N / 125) when p <= 0. *)
Max(a, b) == IF a >= b THEN a ELSE b
\* floor(N * pct / 100) for pct = max(5, 50 - N / 125): 50 - N / 125 >= 5
\* exactly when N <= 5625, and then N * (50 - N / 125) / 100 = N * (6250 - N) / 12500
AdaptiveShare(N) == IF N <= 5625 THEN (N * (6250 - N)) \div 12500 ELSE (N * 5) \div 100
ExpectedTarget(N, p) ==
    IF N < 5 \/ p >= 100 THEN N
    ELSE Max(100, IF p > 0 THEN (N * p) \div 100 ELSE AdaptiveShare(N))

C9_NumFeasibleNodesToFind ==
    probe.op = "num_feasible_nodes_to_find" =>
        probe.value = ExpectedTarget(probe.args[1], probe.args[2])

\* the adaptive percentage was used, hit its floor of 5 and gave more than 100
C9_Witness ==
    /\ probe.op = "num_feasible_nodes_to_find"
    /\ probe.args[2] <= 0
    /\ probe.args[1] > 5625
    /\ probe.value > 100

(* C10.  In a successful schedule call the returned host is a feasible node
   whose total (the sum over the configured priorities of weight times the
   priority's reduced score for the node) is maximal among the feasible nodes,
   and no feasible node before it in the feasible list has the same total. *)
\* the reduced scores of the k-th configured priority over the feasible list
ReducedOf(k) ==
    reduce_mapped_score(priorities[k][2], call.pre, call.pod, call.seen.feasible_nodes,
        [j \in 1..Len(call.seen.feasible_nodes) |->
            map_node_score(priorities[k][2], call.pre, call.pod,
                           call.pre.nodes[call.seen.feasible_nodes[j]]).value])
\* the total of the j-th feasible node
TotalOf(j) == SumSeq([k \in 1..Len(priorities) |-> priorities[k][1] * ReducedOf(k)[j]])

C10_HostHasFirstMaximalTotal ==
    HostReturned =>
        \E h \in 1..Len(call.seen.feasible_nodes) :
            /\ call.pre.nodes[call.seen.feasible_nodes[h]].name = HostName
            /\ \A j \in 1..Len(call.seen.feasible_nodes) : TotalOf(j) <= TotalOf(h)
            /\ \A j \in 1..(h - 1) : TotalOf(j) < TotalOf(h)

\* the host was chosen among several feasible nodes with the maximal total,
\* and some feasible node had less
C10_Witness ==
    /\ HostReturned
    /\ \E h, j, l \in 1..Len(call.seen.feasible_nodes) :
          /\ call.pre.nodes[call.seen.feasible_nodes[h]].name = HostName
          /\ h < j
          /\ TotalOf(j) = TotalOf(h)
          /\ TotalOf(l) < TotalOf(h)

(* C11.  In a successful schedule call needed_images is, in container order,
   the normalized image names of exactly those containers whose normalized
   image is not in the chosen node's cache as it was before the commit, and
   an image the node caches from an earlier placement is never listed. *)
NormalizedImages(pod) ==
    [i \in 1..Len(pod.spec.containers) |-> normalize_image_name(pod.spec.containers[i].image)]
\* the cache of the chosen node before the commit: its keys, and the images
\* whose states earlier placements stored in it
HostCacheBefore == call.pre.images_on_nodes[HostName]
CachedBefore == {HostCacheBefore[k] : k \in DOMAIN HostCacheBefore}
NeededImagesReturned == Get(Get(call.result).needed_images)
\* the first half of the claim: the list is made from the keys of the cache
NeededImagesListedByKey ==
    HostReturned =>
        NeededImagesReturned =
            SelectSeq(NormalizedImages(call.pod), LAMBDA x : x \notin DOMAIN HostCacheBefore)

C11_NeededImagesAreTheUncached ==
    /\ NeededImagesListedByKey
    /\ HostReturned => \A x \in Range(NeededImagesReturned) : x \notin CachedBefore

(* C12.  After a successful schedule(pod) with chosen node n, the normalized
   image name of every container of the pod is a key of images_on_nodes[n.name]. *)
C12_CacheHoldsEveryPodImage ==
    HostReturned =>
        \A x \in Range(NormalizedImages(call.pod)) : x \in DOMAIN images_on_nodes[HostName]

(* C13.  In every schedule call that succeeds, for every configured priority
   P with weight w >= 0 and every feasible node n, the value P adds to n's
   total, w times P's reduced score for n, lies in [0, w * max_priority]. *)
Contribution(k, j) == priorities[k][1] * ReducedOf(k)[j]

C13_ContributionsInRange ==
    Returned =>
        \A k \in 1..Len(priorities) : \A j \in 1..Len(call.seen.feasible_nodes) :
            /\ 0 <= Contribution(k, j)
            /\ Contribution(k, j) <= priorities[k][1] * max_priority

(* C14.  The resource-fit predicate returns true for (pod, node) exactly when
   the sum of the containers' cpu requests (default 100) is <= the node's
   allocatable cpu_millis and the sum of their memory requests (default
   200 MiB) is <= its allocatable memory, and the call leaves the nodes and
   the context as they were. *)
C14_ResourceFitIsExactAndPure ==
    probe.op = "PodFitsResourcesPred" =>
        /\ probe.value = Fits(probe.args[1], probe.pre.nodes[probe.args[2]])
        /\ Context = probe.pre

\* the predicate refused a pod whose cpu requests fit, on a node that an
\* earlier placement had overcommitted
C14_Witness ==
    /\ probe.op = "PodFitsResourcesPred"
    /\ ~probe.value
    /\ TotalCpu(probe.args[1]) <= nodes[probe.args[2]].allocatable.cpu_millis
    /\ nodes[probe.args[2]].allocatable.memory < 0

(* C15.  The round-robin cursor is per-scheduler state: with two schedulers
   over the same context, a schedule call on one of them leaves the other's
   last_scored_node_index unchanged, in every interleaving of their calls. *)
C15_CursorIsPerScheduler ==
    [][/\ (ncalls' # ncalls /\ call'.op = "schedule") =>
             scheduler_b'.last_scored_node_index = scheduler_b.last_scored_node_index
       /\ (ncalls' # ncalls /\ call'.op = "schedule_b") =>
             last_scored_node_index' = last_scored_node_index]_vars

\* both schedulers have been called, the first one last, and their cursors
\* stand at different nodes
C15_Witness ==
    /\ call.op = "schedule"
    /\ scheduler_b.last_scored_node_index > 0
    /\ last_scored_node_index > 0
    /\ last_scored_node_index # scheduler_b.last_scored_node_index

(* C16.  get_image_state(name) for a name absent from image_states calls
   retrieve_image_state(name); with the default retrieve_image_state the call
   fails with the error retrieve_image_state raises, not with a lookup error
   of the map, and image_states is unchanged.  For a stored name the stored
   state is returned. *)
C16_GetImageStateIsLazy ==
    probe.op = "get_image_state" =>
        /\ image_states = probe.pre.image_states
        /\ IF probe.args[1] \in DOMAIN probe.pre.image_states
           THEN ~probe.value.raised /\ probe.value.state = Some(probe.args[1])
           ELSE probe.value.raised /\ probe.value.by = retrieve_image_state(probe.args[1]).by

(* C17.  StorageIndex.put(item) for a bucket that no node hosts fails with an
   error and records nothing: items and tree are unchanged, stat(bucket, name)
   still returns null, and the set of buckets known to the index is unchanged. *)
PutCalled == probe.op = "put"
PutBucket == probe.args[1].bucket
NoNodeHosted(index, bucket) == bucket \notin DOMAIN index.buckets \/ index.buckets[bucket] = {}

C17_FailedPutRecordsNothing ==
    (PutCalled /\ NoNodeHosted(probe.pre, PutBucket)) =>
        /\ probe.value.raised
        /\ storage_index.items = probe.pre.items
        /\ storage_index.tree = probe.pre.tree
        /\ stat(storage_index, PutBucket, probe.args[1].name) = None
        /\ DOMAIN storage_index.buckets = DOMAIN probe.pre.buckets

(* C18.  normalize_image_name is idempotent: normalizing a normalized name
   returns it unchanged; and normalize_image_name appends ':latest' exactly
   when the name has no ':' after its last '/' (the last ':' is absent or
   comes before the last '/'). *)
HasTag(x) == \E i \in 1..Len(x) : x[i] = ":" /\ \A j \in (i + 1)..Len(x) : x[j] # "/"

C18_NormalizeIsIdempotent ==
    probe.op = "normalize_image_name twice" =>
        /\ probe.value = probe.first
        /\ probe.first = IF HasTag(probe.args[1]) THEN probe.args[1]
                         ELSE probe.args[1] \o <<":", "l", "a", "t", "e", "s", "t">>

\* a name with a ':' in its path and no tag was given the tag, and the second
\* application left it alone
C18_Witness ==
    /\ probe.op = "normalize_image_name twice"
    /\ Len(probe.first) = Len(probe.args[1]) + 7
    /\ \E i, j \in 1..Len(probe.args[1]) : i < j /\ probe.args[1][i] = ":" /\ probe.args[1][j] = "/"

(* C19.  parse_size_string rejects malformed input: every string that is not
   entirely one or more decimal digits followed by zero or more ASCII letters
   raises ValueError instead of returning a number. *)
WellFormedSize(x) ==
    \E n \in 1..Len(x) :
        /\ \A i \in 1..n : x[i] \in Range(DigitChars)
        /\ \A i \in (n + 1)..Len(x) : x[i] \in LetterChars

C19_MalformedSizeIsRejected ==
    (probe.op = "parse_size_string" /\ ~WellFormedSize(probe.args[1])) =>
        probe.value.raised

(* C20.  For a digit sequence d followed by a letter suffix s,
   parse_size_string returns int(d) * f(s): f is 10^3, 10^6, ..., 10^18 for
   K, M, G, T, P, E, is 2^10, 2^20, ..., 2^60 for Ki, Mi, Gi, Ti, Pi, Ei, and
   is 1 for the empty suffix and for every other suffix. *)
UnitLetters == <<"K", "M", "G", "T", "P", "E">>

\* the digits and the suffix of a well-formed size string
DigitsOf(x) == SelectSeq(x, LAMBDA ch : ch \in Range(DigitChars))
SuffixOf(x) == SelectSeq(x, LAMBDA ch : ch \in LetterChars)

\* the value of a digit string, as a machine integer
RECURSIVE NatOf(_)
NatOf(d) ==
    IF d = <<>> THEN 0
    ELSE 10 * NatOf(SubSeq(d, 1, Len(d) - 1)) +
         (CHOOSE v \in 0..9 : DigitChars[v + 1] = d[Len(d)])

\* the int with the digits of d, leading zeros dropped
RECURSIVE Stripped(_)
Stripped(d) ==
    IF d = <<>> THEN <<>>
    ELSE IF Head(d) = "0" THEN Stripped(Tail(d))
    ELSE [i \in 1..Len(d) |-> (CHOOSE v \in 0..9 : DigitChars[v + 1] = d[Len(d) + 1 - i])]

\* n * 1024^k
RECURSIVE Kibi(_, _)
Kibi(n, k) == IF k = 0 THEN n ELSE Kibi(TimesSmall(n, 1024, 0), k - 1)

\* int(d) * f(s), as the claim's table gives it
ExpectedSize(d, s) ==
    IF \E k \in 1..6 : s = <<UnitLetters[k]>>
    THEN (IF Stripped(d) = <<>> THEN <<>>
          ELSE [i \in 1..(3 * (CHOOSE k \in 1..6 : s = <<UnitLetters[k]>>)) |-> 0]
               \o Stripped(d))
    ELSE IF \E k \in 1..6 : s = <<UnitLetters[k], "i">>
    THEN Kibi(Stripped(d), CHOOSE k \in 1..6 : s = <<UnitLetters[k], "i">>)
    ELSE Stripped(d)

\* the same product in machine integers, for the units up to G and Gi
SmallFactor(s) ==
    CASE s = <<>> -> 1
      [] s = <<"K">> -> 1000
      [] s = <<"M">> -> 1000000
      [] s = <<"G">> -> 1000000000
      [] s = <<"K", "i">> -> 1024
      [] s = <<"M", "i">> -> 1048576
      [] s = <<"G", "i">> -> 1073741824
      [] OTHER -> IF \E k \in 4..6 : s \in {<<UnitLetters[k]>>, <<UnitLetters[k], "i">>}
                  THEN 0 ELSE 1

C20_SizeIsNumberTimesFactor ==
    (probe.op = "parse_size_string" /\ WellFormedSize(probe.args[1])) =>
        /\ ~probe.value.raised
        /\ probe.value.value =
               ExpectedSize(DigitsOf(probe.args[1]), SuffixOf(probe.args[1]))
        /\ (/\ SmallFactor(SuffixOf(probe.args[1])) > 0
            /\ NatOf(DigitsOf(probe.args[1])) <=
                   2147483647 \div SmallFactor(SuffixOf(probe.args[1])))
             => probe.value.value =
                   IntDigits(NatOf(DigitsOf(probe.args[1])) *
                             SmallFactor(SuffixOf(probe.args[1])))

\* a binary unit beyond machine integers, with a carry in every step: '9Ei'
C20_Witness ==
    /\ probe.op = "parse_size_string"
    /\ probe.args[1] = <<"9", "E", "i">>
    /\ probe.value.value =
           <<4, 8, 7, 2, 2, 6, 1, 6, 4, 1, 4, 5, 3, 9, 2, 6, 7, 3, 0, 1>>

(* C21.  In each schedule call the feasible list is exactly the first target
   predicate-passing nodes met when walking list_nodes() cyclically from the
   cursor for at most one lap: it is in inspection order, has no node twice,
   has at most min(target, N) entries, and no node after the point where the
   target was reached is evaluated or included. *)
FeasibleList == call.seen.feasible_nodes
\* the place in the inspection order of the node at position p
PlaceInOrder(p) == ((p - 1 - call.pre_index) % Len(call.pre.nodes)) + 1
\* the place in the inspection order where the walk ended: where the target
\* was reached, or the end of the lap
WalkEnd ==
    IF call.seen.num_of_nodes_to_find = 0 THEN 0
    ELSE IF Len(FeasibleList) = call.seen.num_of_nodes_to_find
    THEN PlaceInOrder(FeasibleList[Len(FeasibleList)])
    ELSE Len(call.pre.nodes)

C21_FeasibleListIsFirstTargetPassing ==
    (Scheduled /\ Len(call.pre.nodes) > 0) =>
        /\ call.seen.num_of_nodes_to_find =
               num_feasible_nodes_to_find(Len(call.pre.nodes), percentage_of_nodes_to_score)
        /\ Len(FeasibleList) <= call.seen.num_of_nodes_to_find
        /\ Len(FeasibleList) <= Len(call.pre.nodes)
        /\ \A j \in 1..(Len(FeasibleList) - 1) :
               PlaceInOrder(FeasibleList[j]) < PlaceInOrder(FeasibleList[j + 1])
        /\ \A j \in 1..Len(FeasibleList) : PlaceInOrder(FeasibleList[j]) <= WalkEnd
        /\ \A p \in 1..Len(call.pre.nodes) :
               PlaceInOrder(p) <= WalkEnd =>
                   (p \in Range(FeasibleList) <=> PassesAll(call.pod, call.pre.nodes[p]))
        /\ Range(call.seen.evaluated) =
               {p \in 1..Len(call.pre.nodes) : PlaceInOrder(p) <= WalkEnd}

\* the walk started in the middle of the list, wrapped, skipped a node that
\* failed, and reached its target before a node that would have passed
C21_Witness ==
    /\ Scheduled
    /\ call.pre_index > 0
    /\ 0 < WalkEnd /\ WalkEnd < Len(call.pre.nodes)
    /\ \E j \in 1..Len(FeasibleList) : FeasibleList[j] - 1 < call.pre_index
    /\ \E p \in 1..Len(call.pre.nodes) :
          PlaceInOrder(p) < WalkEnd /\ ~PassesAll(call.pod, call.pre.nodes[p])
    /\ \E p \in 1..Len(call.pre.nodes) :
          PlaceInOrder(p) > WalkEnd /\ PassesAll(call.pod, call.pre.nodes[p])

(* C22.  place_pod_on_node is all-or-nothing: when it fails partway through a
   pod with several containers, the node's allocatable, the node's image
   cache, every image_state.num_nodes and the node's pod list are as they were
   before the call, so that a failed schedule call leaves the cluster state
   untouched. *)
PlaceFailed == call.op \in {"place", "schedule"} /\ call.raised

C22_FailedPlacementChangesNothing ==
    PlaceFailed =>
        /\ nodes = call.pre.nodes
        /\ images_on_nodes = call.pre.images_on_nodes
        /\ image_states = call.pre.image_states

(* C23.  If a priority's map_node_score or reduce_mapped_score fails during a
   schedule call, the failure propagates out of schedule and the call leaves
   no trace: no pod is placed, no node's allocatable or image cache changes,
   and the round-robin cursor keeps its pre-call value. *)
\* some configured priority fails on some node of the feasible list
ScoringFails ==
    /\ Scheduled
    /\ \E k \in 1..Len(priorities) : \E j \in 1..Len(call.seen.feasible_nodes) :
          map_node_score(priorities[k][2], call.pre, call.pod,
                         call.pre.nodes[call.seen.feasible_nodes[j]]).raised

\* the first half of the claim: the failure propagates and the cluster state
\* is as before
FailedScoringLeavesCluster ==
    ScoringFails =>
        /\ call.raised
        /\ call.result = None
        /\ nodes = call.pre.nodes
        /\ images_on_nodes = call.pre.images_on_nodes
        /\ image_states = call.pre.image_states

C23_FailedScoringLeavesNoTrace ==
    /\ FailedScoringLeavesCluster
    /\ ScoringFails => last_scored_node_index = call.pre_index

(* C24.  LatencyAwareImageLocalityPriority.map_node_score for node n is
   floor(S / bandwidth(registry -> n)), where S is the sum, over the pod's
   containers whose normalized image is not in n's image cache, of that
   image's size for n's architecture when the image's size map has it, and
   otherwise of its size for some architecture present in that map; a
   fallback taken for one image does not change the architecture used to size
   the pod's other images, and cached images contribute 0. *)
ImageScored == probe.op = "LatencyAwareImageLocalityPriority.map_node_score"
ScoredPod == probe.args[1]
ScoredNode == probe.pre.nodes[probe.args[2]]
NodeArch == ScoredNode.labels["beta.kubernetes.io/arch"]
\* the sizes the claim allows for the image of one container on the node
SizesAllowed(c) ==
    IF normalize_image_name(c.image) \in DOMAIN probe.pre.images_on_nodes[ScoredNode.name]
    THEN {0}
    ELSE IF HasKey(probe.pre.image_states[normalize_image_name(c.image)].size, NodeArch)
    THEN {Lookup(probe.pre.image_states[normalize_image_name(c.image)].size, NodeArch)}
    ELSE {probe.pre.image_states[normalize_image_name(c.image)].size[i][2] :
             i \in 1..Len(probe.pre.image_states[normalize_image_name(c.image)].size)}
\* the sums S the claim allows for a list of containers
RECURSIVE SumsAllowed(_)
SumsAllowed(containers) ==
    IF containers = <<>> THEN {0}
    ELSE {x + y : x \in SizesAllowed(Head(containers)), y \in SumsAllowed(Tail(containers))}

C24_ImageScoreIsDownloadTime ==
    (ImageScored /\ ~probe.value.raised) =>
        \E S \in SumsAllowed(ScoredPod.spec.containers) :
            probe.value.value =
                S \div Get(get_dl_bandwidth(probe.pre, "registry", ScoredNode.name))

(* C25.  The reduction of LatencyAwareImageLocalityPriority maps a vector of
   non-negative raw times to score_i = floor(max_priority * (max - raw_i + min)
   / max), max and min taken over the vector, and to the all-zero vector of
   the same length when max is 0; hence a node with a smaller raw time never
   gets a lower score than a node with a larger one. *)
Reduced == probe.op = "LocalityPriority.reduce_mapped_score"
RawTimes == probe.args[1]
IsMaxOf(m, xs) == (\E i \in 1..Len(xs) : xs[i] = m) /\ \A i \in 1..Len(xs) : xs[i] <= m
IsMinOf(m, xs) == (\E i \in 1..Len(xs) : xs[i] = m) /\ \A i \in 1..Len(xs) : xs[i] >= m

C25_ReductionPrefersSmallerTimes ==
    Reduced =>
        /\ Len(probe.value) = Len(RawTimes)
        /\ \A hi, lo \in 0..12 :
               (IsMaxOf(hi, RawTimes) /\ IsMinOf(lo, RawTimes)) =>
                   \A i \in 1..Len(RawTimes) :
                       probe.value[i] = IF hi = 0 THEN 0
                                        ELSE (max_priority * (hi - RawTimes[i] + lo)) \div hi
        /\ \A i, j \in 1..Len(RawTimes) :
               RawTimes[i] < RawTimes[j] => probe.value[i] >= probe.value[j]

\* the times 7 and 12 of two nodes: the slower node keeps 5 of the 10 points
C25_Witness ==
    /\ Reduced
    /\ RawTimes = <<7, 12>>
    /\ probe.value = <<10, 5>>

(* C27.  For every vector xs of non-negative integers and target T the scaling
   helpers return a vector of the same length with scale(xs, T)[i] =
   round(T * (x_i - min) / (max - min)) and scale_inverse(xs, T)[i] =
   round(T * (x_i - max) / (min - max)), rounded to the nearest integer, and
   both return the all-zero vector when max = min (the empty vector
   included). *)
Scaled == probe.op \in {"_scale_scores", "_scale_scores_inverse"}
ScaledVector == probe.args[1]
ScaleTarget == probe.args[2]
\* v is an integer nearest to num / den (either neighbour on a tie), den > 0
IsNearest(v, num, den) ==
    LET diff == num - v * den
    IN 2 * (IF diff < 0 THEN 0 - diff ELSE diff) <= den

C27_ScalingRoundsToNearest ==
    Scaled =>
        /\ Len(probe.value) = Len(ScaledVector)
        /\ \A hi, lo \in 0..12 :
               (IsMaxOf(hi, ScaledVector) /\ IsMinOf(lo, ScaledVector)) =>
                   \A i \in 1..Len(ScaledVector) :
                       IF hi = lo THEN probe.value[i] = 0
                       ELSE IsNearest(probe.value[i],
                                      IF probe.op = "_scale_scores"
                                      THEN ScaleTarget * (ScaledVector[i] - lo)
                                      ELSE ScaleTarget * (hi - ScaledVector[i]),
                                      hi - lo)
        /\ (ScaledVector = <<>>) => probe.value = <<>>

(* C27, amended.  Both helpers cut the quotient to the integer below it
   (int() of a non-negative quotient): scale(xs, T)[i] = floor(T * (x_i - min)
   / (max - min)) and scale_inverse(xs, T)[i] = floor(T * (max - x_i) /
   (max - min)); same length, all-zero when max = min. *)
C27_ScalingTruncates ==
    Scaled =>
        /\ Len(probe.value) = Len(ScaledVector)
        /\ \A hi, lo \in 0..12 :
               (IsMaxOf(hi, ScaledVector) /\ IsMinOf(lo, ScaledVector)) =>
                   \A i \in 1..Len(ScaledVector) :
                       probe.value[i] =
                           IF hi = lo THEN 0
                           ELSE (IF probe.op = "_scale_scores"
                                 THEN ScaleTarget * (ScaledVector[i] - lo)
                                 ELSE ScaleTarget * (hi - ScaledVector[i])) \div (hi - lo)

\* 0, 2, 3 scaled to 10: the middle entry is 6 (6.67 cut), and 3 inverted (3.33 cut)
C27_Witness ==
    /\ Scaled
    /\ ScaledVector = <<0, 2, 3>>
    /\ ScaleTarget = max_priority
    /\ probe.value = IF probe.op = "_scale_scores" THEN <<0, 6, 10>> ELSE <<10, 3, 0>>

(* C26.  DataLocalityPriority.map_node_score is the sum of a receive term and
   a send term.  A term is 0 when its path label is absent, when the storage
   index has no item for the path, or when the candidate is one of the
   storage nodes that hold the item; otherwise it is floor(item.size / b),
   b being the minimum over the storage nodes s that hold the item of
   bandwidth(s -> candidate) for receives and bandwidth(candidate -> s) for
   sends. *)
DataScored == probe.op = "DataLocalityPriority.map_node_score"
DataPod == probe.args[1]
Candidate == probe.pre.nodes[probe.args[2]].name
Holders(path) ==
    IF path \in DOMAIN probe.pre.storage_index.tree
    THEN probe.pre.storage_index.tree[path] ELSE {}
DirectedBandwidth(s, receive) ==
    IF receive THEN Get(get_dl_bandwidth(probe.pre, s, Candidate))
    ELSE Get(get_dl_bandwidth(probe.pre, Candidate, s))
IsTerm(t, label, receive) ==
    IF label \notin DOMAIN DataPod.spec.labels THEN t = 0
    ELSE LET path == DataPod.spec.labels[label]
         IN IF path \notin DOMAIN probe.pre.storage_index.items THEN t = 0
            ELSE IF Candidate \in Holders(path) THEN t = 0
            ELSE \E s \in Holders(path) :
                    /\ \A o \in Holders(path) :
                           DirectedBandwidth(s, receive) <= DirectedBandwidth(o, receive)
                    /\ t = probe.pre.storage_index.items[path].size
                              \div DirectedBandwidth(s, receive)

NullReturned == Returned /\ Get(call.result).suggested_host = None

C28_NullResultChangesNothing ==
    NullReturned =>
        /\ nodes = call.pre.nodes
        /\ images_on_nodes = call.pre.images_on_nodes
        /\ image_states = call.pre.image_states
        /\ last_scored_node_index = call.pre_index

\* a pod is rejected after earlier calls have placed pods, filled a cache and
\* moved the cursor off the start of the list
C28_Witness ==
    /\ NullReturned
    /\ call.pre_index > 0
    /\ \E i \in 1..Len(call.pre.nodes) :
          /\ call.pre.nodes[i].pods # <<>>
          /\ call.pre.images_on_nodes[call.pre.nodes[i].name] # EmptyDict

(* C29.  A successful schedule call changes exactly one node: the pod is
   appended exactly once to the pod list of the returned host, and only that
   host's allocatable and image cache change; the allocatable, pod list and
   image cache of every other node are unchanged, so that after any sequence
   of calls each pod submitted once is in the pod list of at most one node. *)
HostPosition == CHOOSE i \in 1..Len(call.pre.nodes) : call.pre.nodes[i].name = HostName

C29_SuccessChangesOnlyTheHost ==
    /\ HostReturned =>
          /\ Len(nodes) = Len(call.pre.nodes)
          /\ DOMAIN images_on_nodes = DOMAIN call.pre.images_on_nodes
          /\ \A i \in 1..Len(nodes) :
                IF i = HostPosition
                THEN /\ nodes[i].pods = Append(call.pre.nodes[i].pods, call.pod.name)
                     /\ nodes[i] = [call.pre.nodes[i] EXCEPT !.pods = nodes[i].pods,
                                                            !.allocatable = nodes[i].allocatable]
                ELSE /\ nodes[i] = call.pre.nodes[i]
                     /\ images_on_nodes[nodes[i].name] =
                            call.pre.images_on_nodes[nodes[i].name]
    /\ \A i, j \in 1..Len(nodes) :
          \A a \in 1..Len(nodes[i].pods), b \in 1..Len(nodes[j].pods) :
             nodes[i].pods[a] = nodes[j].pods[b] => (i = j /\ a = b)

\* the third pod goes to a node of three while the two before it are on
\* another node or two, whose caches are filled
C29_Witness ==
    /\ HostReturned
    /\ Len(nodes) = 3
    /\ call.pod.name = PodName(3)
    /\ \E i \in 1..Len(nodes) :
          /\ i # HostPosition
          /\ nodes[i].pods # <<>>
          /\ images_on_nodes[nodes[i].name] # EmptyDict
          /\ images_on_nodes[nodes[i].name] # images_on_nodes[HostName]

(* C30.  Two ClusterContext instances are independent: placing a pod through
   one instance changes neither the image cache (images_on_nodes), nor the
   image states, nor the bandwidth graph observed through the other instance,
   even when both contain a node with the same name. *)
\* what is observed through a context: its cache, its image states, and the
\* edges of its graph between the registry and its nodes
Observed(ctx) ==
    [images_on_nodes |-> ctx.images_on_nodes,
     image_states |-> ctx.image_states,
     bandwidth |-> [from \in {"registry"} \cup {ctx.nodes[i].name : i \in 1..Len(ctx.nodes)} |->
                      [to \in {ctx.nodes[i].name : i \in 1..Len(ctx.nodes)} |->
                          get_dl_bandwidth(ctx, from, to)]]]

C30_ContextsAreIndependent ==
    [][ /\ (ncalls' = ncalls + 1 /\ call'.op = "place_b") => Observed(Context)' = Observed(Context)
        /\ (ncalls' = ncalls + 1 /\ call'.op = "place") => Observed(ContextB)' = Observed(ContextB)
      ]_vars

\* what does hold: the image states and the graph of the other instance,
\* and its nodes, are as before
OtherInstanceKeepsItsOwn ==
    [][ /\ (ncalls' = ncalls + 1 /\ call'.op = "place_b") =>
              /\ image_states' = image_states
              /\ nodes' = nodes
              /\ Observed(Context)'.bandwidth = Observed(Context).bandwidth
        /\ (ncalls' = ncalls + 1 /\ call'.op = "place") =>
              /\ context_b' = context_b
              /\ Observed(ContextB)'.bandwidth = Observed(ContextB).bandwidth
      ]_vars

(* C31.  After any sequence of StorageIndex mb and successful or failed put
   operations the key sets of items and tree are equal, and for every stored
   key (bucket, name): stat returns the item of the most recent put for that
   key, data_nodes(bucket, name) is non-empty, is a subset of
   bucket_nodes(bucket), and contains every node that hosted the bucket at
   the time of any put of that key. *)
C31_IndexIsConsistent ==
    /\ DOMAIN storage_index.items = DOMAIN storage_index.tree
    /\ \A k \in DOMAIN storage_index.items :
          /\ k \in DOMAIN puts
          /\ stat(storage_index, k[1], k[2]) = Some(puts[k].last)
          /\ get_data_nodes(storage_index, k[1], k[2]) # None
          /\ Get(get_data_nodes(storage_index, k[1], k[2])) # {}
          /\ k[1] \in DOMAIN storage_index.buckets
          /\ Get(get_data_nodes(storage_index, k[1], k[2])) \subseteq storage_index.buckets[k[1]]
          /\ puts[k].hosts \subseteq Get(get_data_nodes(storage_index, k[1], k[2]))

\* in/obj is put again, with another size, after a second node has come to
\* host the bucket, and a put into a bucket without a node has failed
C31_Witness ==
    /\ probe.op = "put"
    /\ ~probe.value.raised
    /\ probe.args[1] = DataItem("in", "obj", 7)
    /\ probe.pre.items[<<"in", "obj">>].size = 100
    /\ probe.pre.tree[<<"in", "obj">>] = {NodeName(1)}
    /\ storage_index.tree[<<"in", "obj">>] = {NodeName(1), NodeName(2)}
    /\ \E k \in DOMAIN puts : k \notin DOMAIN storage_index.items

====
